---- MODULE Spec2Model ----
(***************************************************************************)
(* Controller / automation-server selection of the BMS point scheduler     *)
(* (src/app.py).  The catalog tables (ControllerType, ServerModule,        *)
(* Accessory) and one panel's point summary are the state; the solver      *)
(* functions are operators computed the way the Python code computes them, *)
(* and each request handler is one action.                                 *)
(***************************************************************************)
EXTENDS Integers, Sequences, FiniteSets, TLC

\* ------------------------------------------------------------------------
\* Bounds of the model
\* ------------------------------------------------------------------------
MaxEquip == 2        \* scheduled point entries on the panel
BigRepeat == 20      \* the large point_repeat of an entry (the small one is 1)
MaxCap == 1          \* capacity of one kind on one catalog row: 0..MaxCap
MaxCost == 2         \* unit costs run up to MaxCost
MaxProbe == 3        \* quantities compared by the engine properties
MaxSel == 2          \* ControllerSelection rows of the project
MaxQty == 2          \* quantity of a selection or of a module in a selection
MaxTemplates == 2    \* EquipmentTemplate rows
MaxPresets == 2      \* EquipmentPreset rows

\* ------------------------------------------------------------------------
\* Program constants
\* ------------------------------------------------------------------------
ProbeWindow == 20    \* range(int(n_start), int(n_start) + 20)

ReqKinds == <<"AI", "AO", "DI", "DO", "UI">>
ReqKindSet == {"AI", "AO", "DI", "DO", "UI"}
CapKindSet == {"AI", "AO", "DI", "DO", "UI", "UO", "UIO"}

Min(a, b) == IF a <= b THEN a ELSE b
Max(a, b) == IF a >= b THEN a ELSE b

\* math.ceil(need / cap) for positive integers
Ceil(need, cap) == (need + cap - 1) \div cap

\* sum(d.values()) of a requirement dictionary
SumValues(d) == d["AI"] + d["AO"] + d["DI"] + d["DO"] + d["UI"]

\* The capacity columns of a ControllerType / ServerModule row as a dictionary
CapOf(row) ==
  [k \in CapKindSet |->
     CASE k = "AI" -> row.ai_capacity
       [] k = "AO" -> row.ao_capacity
       [] k = "DI" -> row.di_capacity
       [] k = "DO" -> row.do_capacity
       [] k = "UI" -> row.ui_capacity
       [] k = "UO" -> row.uo_capacity
       [] k = "UIO" -> row.uio_capacity]

\* ------------------------------------------------------------------------
\* find_optimal_controller.can_cover_with_n
\* ------------------------------------------------------------------------
\* for pt in order: take = min(rem_reqs[pt], rem_cap[pool]); both decrease
RECURSIVE DrainPool(_, _, _, _)
DrainPool(rem_reqs, rem_cap, pool, order) ==
  IF order = <<>> THEN [reqs |-> rem_reqs, cap |-> rem_cap]
  ELSE LET pt == Head(order)
           take == Min(rem_reqs[pt], rem_cap[pool])
       IN DrainPool([rem_reqs EXCEPT ![pt] = @ - take],
                    [rem_cap EXCEPT ![pool] = @ - take],
                    pool, Tail(order))

\* for pt in order: take = min(rem_reqs[pt], rem_cap[pt]); both decrease
RECURSIVE DrainDedicated(_, _, _)
DrainDedicated(rem_reqs, rem_cap, order) ==
  IF order = <<>> THEN [reqs |-> rem_reqs, cap |-> rem_cap]
  ELSE LET pt == Head(order)
           take == Min(rem_reqs[pt], rem_cap[pt])
       IN DrainDedicated([rem_reqs EXCEPT ![pt] = @ - take],
                         [rem_cap EXCEPT ![pt] = @ - take],
                         Tail(order))

\* Variant: the UIO pool is divided by the quantity instead of multiplied
ResidualPoolDivided(controller, reqs, n) ==
  LET rem_cap0 == [k \in CapKindSet |->
                     IF k = "UIO" THEN CapOf(controller)[k] \div n
                     ELSE CapOf(controller)[k] * n]
      s1 == DrainDedicated(reqs, rem_cap0, <<"AI", "AO", "DI", "DO", "UI">>)
      s2 == DrainPool(s1.reqs, s1.cap, "UI", <<"AI", "DI">>)
      s3 == DrainPool(s2.reqs, s2.cap, "UO", <<"AO", "DO">>)
      s4 == DrainPool(s3.reqs, s3.cap, "UIO", <<"AI", "AO", "DI", "DO", "UI">>)
  IN s4.reqs

\* Variant: step 3 is missing, UO terminals serve nothing
ResidualWithoutUO(controller, reqs, n) ==
  LET rem_cap0 == [k \in CapKindSet |-> CapOf(controller)[k] * n]
      s1 == DrainDedicated(reqs, rem_cap0, <<"AI", "AO", "DI", "DO", "UI">>)
      s2 == DrainPool(s1.reqs, s1.cap, "UI", <<"AI", "DI">>)
      s4 == DrainPool(s2.reqs, s2.cap, "UIO", <<"AI", "AO", "DI", "DO", "UI">>)
  IN s4.reqs

\* Variant: the UIO terminals are handed out before the UI and UO terminals
ResidualUIOFirst(controller, reqs, n) ==
  LET rem_cap0 == [k \in CapKindSet |-> CapOf(controller)[k] * n]
      s1 == DrainDedicated(reqs, rem_cap0, <<"AI", "AO", "DI", "DO", "UI">>)
      s4 == DrainPool(s1.reqs, s1.cap, "UIO", <<"AI", "AO", "DI", "DO", "UI">>)
      s2 == DrainPool(s4.reqs, s4.cap, "UI", <<"AI", "DI">>)
      s3 == DrainPool(s2.reqs, s2.cap, "UO", <<"AO", "DO">>)
  IN s3.reqs

\* The residual requirement left by n units of the controller
Residual(controller, reqs, n) ==
  LET rem_cap0 == [k \in CapKindSet |-> CapOf(controller)[k] * n]
      s1 == DrainDedicated(reqs, rem_cap0, <<"AI", "AO", "DI", "DO", "UI">>)
      s2 == DrainPool(s1.reqs, s1.cap, "UI", <<"AI", "DI">>)
      s3 == DrainPool(s2.reqs, s2.cap, "UO", <<"AO", "DO">>)
      s4 == DrainPool(s3.reqs, s3.cap, "UIO", <<"AI", "AO", "DI", "DO", "UI">>)
  IN s4.reqs

\* all(v <= 0 for v in rem_reqs.values())
can_cover_with_n(controller, reqs, n) ==
  LET rem_reqs == Residual(controller, reqs, n)
  IN SumValues(rem_reqs) <= 0

\* ------------------------------------------------------------------------
\* find_optimal_controller.lower_bound_n
\* ------------------------------------------------------------------------
EffCap(controller) ==
  [pt \in ReqKindSet |->
     CASE pt = "AI" -> controller.ai_capacity + controller.ui_capacity + controller.uio_capacity
       [] pt = "AO" -> controller.ao_capacity + controller.uo_capacity + controller.uio_capacity
       [] pt = "DI" -> controller.di_capacity + controller.ui_capacity + controller.uio_capacity
       [] pt = "DO" -> controller.do_capacity + controller.uo_capacity + controller.uio_capacity
       [] pt = "UI" -> controller.ui_capacity + controller.uio_capacity]

RECURSIVE LowerBoundLoop(_, _, _, _)
LowerBoundLoop(eff, reqs, order, n_lb) ==
  IF order = <<>> THEN [inf |-> FALSE, n |-> n_lb]
  ELSE LET pt == Head(order)
           need == reqs[pt]
           cap == eff[pt]
       IN IF need > 0
          THEN IF cap = 0 THEN [inf |-> TRUE, n |-> 0]
               ELSE LowerBoundLoop(eff, reqs, Tail(order), Max(n_lb, Ceil(need, cap)))
          ELSE LowerBoundLoop(eff, reqs, Tail(order), n_lb)

\* Variant: the bound starts at two units
lower_bound_from_two(controller, reqs) ==
  LowerBoundLoop(EffCap(controller), reqs, ReqKinds, 2)

\* inf = TRUE stands for math.inf
lower_bound_n(controller, reqs) ==
  LowerBoundLoop(EffCap(controller), reqs, ReqKinds, 1)

\* ------------------------------------------------------------------------
\* Catalog queries
\* ------------------------------------------------------------------------
\* total_cost += accessory.cost for accessory in rows
RECURSIVE SumCost(_)
SumCost(rows) == IF rows = <<>> THEN 0 ELSE Head(rows).cost + SumCost(Tail(rows))

\* Accessory.query.filter_by(parent_part_number=pn).all()
AccessoriesOf(accs, pn) ==
  LET IsChild(a) == a.parent_part_number = pn IN SelectSeq(accs, IsChild)

\* ControllerType.query.get(id): a sequence holding the row, or empty
GetControllerType(ctypes, id) ==
  LET HasId(c) == c.id = id IN SelectSeq(ctypes, HasId)

\* Variant: the accessories are left out of the cost
calculate_controller_cost_alone(ctypes, accs, controller_type_id) ==
  LET found == GetControllerType(ctypes, controller_type_id)
  IN IF found = <<>> THEN 0 ELSE found[1].cost

calculate_controller_cost_with_accessories(ctypes, accs, controller_type_id) ==
  LET found == GetControllerType(ctypes, controller_type_id)
  IN IF found = <<>> THEN 0
     ELSE found[1].cost + SumCost(AccessoriesOf(accs, found[1].part_number))

\* ------------------------------------------------------------------------
\* find_optimal_controller
\* ------------------------------------------------------------------------
\* for n in range(n, stop): the first n that can_cover_with_n accepts, as <<n>>
RECURSIVE FirstCover(_, _, _, _)
FirstCover(controller, reqs, n, stop) ==
  IF n >= stop THEN <<>>
  ELSE IF can_cover_with_n(controller, reqs, n) THEN <<n>>
       ELSE FirstCover(controller, reqs, n + 1, stop)

\* The quantity the inner loop accepts for one controller, as <<n>>, or <<>>
ProbeController(controller, reqs) ==
  LET n_start == lower_bound_n(controller, reqs)
  IN IF n_start.inf THEN <<>>
     ELSE FirstCover(controller, reqs, n_start.n, n_start.n + ProbeWindow)

\* Variant: the first controller that covers is kept, cheaper later ones
\* are not compared
RECURSIVE FindLoopKeepsFirst(_, _, _, _, _)
FindLoopKeepsFirst(ctypes, accs, rest, reqs, best) ==
  IF rest = <<>> THEN best
  ELSE LET controller == Head(rest)
           hit == ProbeController(controller, reqs)
           total_cost ==
             calculate_controller_cost_with_accessories(ctypes, accs, controller.id) * hit[1]
       IN IF hit # <<>> /\ best = <<>>
          THEN FindLoopKeepsFirst(ctypes, accs, Tail(rest), reqs,
                                  <<[controller_id |-> controller.id,
                                     quantity |-> hit[1],
                                     cost |-> total_cost]>>)
          ELSE FindLoopKeepsFirst(ctypes, accs, Tail(rest), reqs, best)

\* Variant: the unit cost is not multiplied by the quantity
RECURSIVE FindLoopUnitCost(_, _, _, _, _)
FindLoopUnitCost(ctypes, accs, rest, reqs, best) ==
  IF rest = <<>> THEN best
  ELSE LET controller == Head(rest)
           hit == ProbeController(controller, reqs)
           total_cost == calculate_controller_cost_with_accessories(ctypes, accs, controller.id)
           better == best = <<>> \/ total_cost < best[1].cost
       IN IF hit # <<>> /\ better
          THEN FindLoopUnitCost(ctypes, accs, Tail(rest), reqs,
                                <<[controller_id |-> controller.id,
                                   quantity |-> hit[1],
                                   cost |-> total_cost]>>)
          ELSE FindLoopUnitCost(ctypes, accs, Tail(rest), reqs, best)

\* Variant: a controller that cannot cover ends the search ("break" for
\* "continue")
RECURSIVE FindLoopStopsAtMiss(_, _, _, _, _)
FindLoopStopsAtMiss(ctypes, accs, rest, reqs, best) ==
  IF rest = <<>> THEN best
  ELSE LET controller == Head(rest)
           hit == ProbeController(controller, reqs)
           total_cost ==
             calculate_controller_cost_with_accessories(ctypes, accs, controller.id) * hit[1]
           better == best = <<>> \/ total_cost < best[1].cost
       IN IF hit = <<>> THEN best
          ELSE IF better
          THEN FindLoopStopsAtMiss(ctypes, accs, Tail(rest), reqs,
                                   <<[controller_id |-> controller.id,
                                      quantity |-> hit[1],
                                      cost |-> total_cost]>>)
          ELSE FindLoopStopsAtMiss(ctypes, accs, Tail(rest), reqs, best)

\* The outer loop; best is <<>> (None) or <<best_option>>
RECURSIVE FindLoop(_, _, _, _, _)
FindLoop(ctypes, accs, rest, reqs, best) ==
  IF rest = <<>> THEN best
  ELSE LET controller == Head(rest)
           hit == ProbeController(controller, reqs)
           total_cost ==
             calculate_controller_cost_with_accessories(ctypes, accs, controller.id) * hit[1]
           better == best = <<>> \/ total_cost < best[1].cost
       IN IF hit # <<>> /\ better
          THEN FindLoop(ctypes, accs, Tail(rest), reqs,
                        <<[controller_id |-> controller.id,
                           quantity |-> hit[1],
                           cost |-> total_cost]>>)
          ELSE FindLoop(ctypes, accs, Tail(rest), reqs, best)

\* ctypes is the whole ControllerType table (for the cost query),
\* controller_types the rows handed to the solver
find_optimal_controller(ctypes, accs, point_requirements, controller_types) ==
  FindLoop(ctypes, accs, controller_types, point_requirements, <<>>)

\* ------------------------------------------------------------------------
\* generate_asp_solution
\* ------------------------------------------------------------------------
\* total_points of the scoring loop (uo_capacity is not part of the sum)
TotalPoints(module) ==
  module.ai_capacity + module.ao_capacity + module.di_capacity
    + module.do_capacity + module.ui_capacity + module.uio_capacity

DedicatedPoints(module) ==
  module.ai_capacity + module.ao_capacity + module.di_capacity + module.do_capacity

\* efficiency = total_points / module.cost raises ZeroDivisionError
AspRaises(server_modules) ==
  \E i \in 1..Len(server_modules) :
     TotalPoints(server_modules[i]) > 0 /\ server_modules[i].cost = 0

\* score = 0.7 * specificity + 0.3 * efficiency, as the exact fraction
\* (7*dedicated*cost + 3*total*total) / (10*total*cost)
ScoreNum(module) ==
  7 * DedicatedPoints(module) * module.cost + 3 * TotalPoints(module) * TotalPoints(module)

ScoreDen(module) == 10 * TotalPoints(module) * module.cost

\* Variant: the sort is ascending, score(a) <= score(b)
ScoreLeq(a, b) == ScoreNum(a) * ScoreDen(b) <= ScoreNum(b) * ScoreDen(a)

\* score(a) >= score(b)
ScoreGeq(a, b) == ScoreNum(a) * ScoreDen(b) >= ScoreNum(b) * ScoreDen(a)

\* module_scores: the modules with total_points > 0, in catalog order
Scored(server_modules) ==
  LET HasPoints(m) == TotalPoints(m) > 0 IN SelectSeq(server_modules, HasPoints)

\* list.sort(key=score, reverse=True): stable, equal scores keep their order
RECURSIVE InsertByScore(_, _)
InsertByScore(sorted, m) ==
  IF sorted = <<>> THEN <<m>>
  ELSE IF ScoreGeq(Head(sorted), m) THEN <<Head(sorted)>> \o InsertByScore(Tail(sorted), m)
       ELSE <<m>> \o sorted

RECURSIVE SortByScore(_, _)
SortByScore(rest, sorted) ==
  IF rest = <<>> THEN sorted
  ELSE SortByScore(Tail(rest), InsertByScore(sorted, Head(rest)))

sorted_modules(server_modules) == SortByScore(Scored(server_modules), <<>>)

\* The "helps" test at the top of the while loop
Helps(module, rem) ==
  \/ rem["AI"] > 0 /\ (module.ai_capacity > 0 \/ module.ui_capacity > 0 \/ module.uio_capacity > 0)
  \/ rem["AO"] > 0 /\ (module.ao_capacity > 0 \/ module.ui_capacity > 0 \/ module.uio_capacity > 0)
  \/ rem["DI"] > 0 /\ (module.di_capacity > 0 \/ module.ui_capacity > 0 \/ module.uio_capacity > 0)
  \/ rem["DO"] > 0 /\ (module.do_capacity > 0 \/ module.ui_capacity > 0 \/ module.uio_capacity > 0)
  \/ rem["UI"] > 0 /\ (module.ui_capacity > 0 \/ module.uio_capacity > 0)

\* if rem > 0: take = min(rem, flex); rem -= take; flex -= take, over the kinds in order
RECURSIVE UseFlex(_, _, _)
UseFlex(rem, flex, order) ==
  IF order = <<>> THEN rem
  ELSE LET pt == Head(order)
           take == IF rem[pt] > 0 THEN Min(rem[pt], flex) ELSE 0
       IN UseFlex([rem EXCEPT ![pt] = @ - take], flex - take, Tail(order))

\* rem_ai .. rem_ui after one unit of the module is attached
AfterModule(module, rem) ==
  LET r0 == [pt \in ReqKindSet |->
               CASE pt = "AI" -> Max(0, rem["AI"] - module.ai_capacity)
                 [] pt = "AO" -> Max(0, rem["AO"] - module.ao_capacity)
                 [] pt = "DI" -> Max(0, rem["DI"] - module.di_capacity)
                 [] pt = "DO" -> Max(0, rem["DO"] - module.do_capacity)
                 [] pt = "UI" -> Max(0, rem["UI"] - module.ui_capacity)]
      r1 == UseFlex(r0, module.ui_capacity, <<"AI", "AO", "DI", "DO">>)
  IN UseFlex(r1, module.uio_capacity, <<"AI", "AO", "DI", "DO", "UI">>)

ModuleEntry(module) ==
  [id |-> module.id, part_number |-> module.part_number, quantity |-> 1, cost |-> module.cost]

\* The while loop for one module; st = [rem, required_modules, total_cost]
RECURSIVE WhileModule(_, _, _)
WhileModule(accs, module, st) ==
  IF ~Helps(module, st.rem) THEN st
  ELSE LET after == AfterModule(module, st.rem)
           unit_cost == module.cost + SumCost(AccessoriesOf(accs, module.part_number))
       IN IF after = st.rem THEN st
          ELSE LET next == [rem |-> after,
                            required_modules |-> Append(st.required_modules, ModuleEntry(module)),
                            total_cost |-> st.total_cost + unit_cost]
               IN IF SumValues(after) = 0 THEN next
                  ELSE WhileModule(accs, module, next)

\* The for loop over sorted_modules
RECURSIVE GreedyLoop(_, _, _)
GreedyLoop(accs, rest, st) ==
  IF rest = <<>> THEN st
  ELSE LET next == WhileModule(accs, Head(rest), st)
       IN IF SumValues(next.rem) = 0 THEN next
          ELSE GreedyLoop(accs, Tail(rest), next)

\* Variant: the units are listed one by one, not consolidated
KeepUnits(required_modules, acc) == acc \o required_modules

\* consolidated_modules: one entry per part number, first-seen order
RECURSIVE Consolidate(_, _)
Consolidate(required_modules, acc) ==
  IF required_modules = <<>> THEN acc
  ELSE LET m == Head(required_modules)
           seen == \E i \in 1..Len(acc) : acc[i].part_number = m.part_number
       IN Consolidate(Tail(required_modules),
            IF seen
            THEN [i \in 1..Len(acc) |->
                    IF acc[i].part_number = m.part_number
                    THEN [acc[i] EXCEPT !.quantity = @ + 1] ELSE acc[i]]
            ELSE Append(acc, m))

\* <<>> is None; defined when AspRaises(server_modules) is false
generate_asp_solution(accs, asp_server, requirements, server_modules) ==
  LET base == asp_server.cost + SumCost(AccessoriesOf(accs, asp_server.part_number))
      st == GreedyLoop(accs, sorted_modules(server_modules),
                       [rem |-> requirements, required_modules |-> <<>>, total_cost |-> base])
  IN IF SumValues(st.rem) > 0 THEN <<>>
     ELSE <<[type |-> "AS-P",
             server_id |-> asp_server.id,
             server_part_number |-> asp_server.part_number,
             modules |-> Consolidate(st.required_modules, <<>>),
             total_cost |-> st.total_cost]>>

\* ------------------------------------------------------------------------
\* generate_asb_solution
\* ------------------------------------------------------------------------
\* Variant: the UIO pool is not reduced by the deficits it has covered
RECURSIVE CanHandlePoolKept(_, _, _, _)
CanHandlePoolKept(asb_server, remaining, uio, order) ==
  IF order = <<>> THEN TRUE
  ELSE LET point_type == Head(order)
           capacity == CapOf(asb_server)[point_type]
           deficit == remaining[point_type] - capacity
       IN IF remaining[point_type] > capacity
          THEN IF deficit > uio THEN FALSE
               ELSE CanHandlePoolKept(asb_server, remaining, uio, Tail(order))
          ELSE CanHandlePoolKept(asb_server, remaining, uio, Tail(order))

\* The loop over point types; uio is total_capacity['UIO']
RECURSIVE CanHandle(_, _, _, _)
CanHandle(asb_server, remaining, uio, order) ==
  IF order = <<>> THEN TRUE
  ELSE LET point_type == Head(order)
           capacity == CapOf(asb_server)[point_type]
           deficit == remaining[point_type] - capacity
       IN IF remaining[point_type] > capacity
          THEN IF deficit > uio THEN FALSE
               ELSE CanHandle(asb_server, remaining, uio - deficit, Tail(order))
          ELSE CanHandle(asb_server, remaining, uio, Tail(order))

generate_asb_solution(accs, asb_server, requirements) ==
  IF ~CanHandle(asb_server, requirements, asb_server.uio_capacity, ReqKinds) THEN <<>>
  ELSE <<[type |-> "AS-B",
          server_id |-> asb_server.id,
          server_part_number |-> asb_server.part_number,
          modules |-> <<>>,
          total_cost |-> asb_server.cost
                           + SumCost(AccessoriesOf(accs, asb_server.part_number))]>>

\* ------------------------------------------------------------------------
\* generate_optimal_server_solutions
\* ------------------------------------------------------------------------
\* 'AS-P' in s.name: names and tags are sequences of characters
Contains(name, tag) ==
  \E i \in 1..Len(name) :
     i + Len(tag) - 1 <= Len(name) /\ SubSeq(name, i, i + Len(tag) - 1) = tag

TagASP == <<"A", "S", "-", "P">>
TagASB == <<"A", "S", "-", "B">>

\* solutions.sort(key=total_cost): stable, ascending
RECURSIVE InsertByCost(_, _)
InsertByCost(sorted, x) ==
  IF sorted = <<>> THEN <<x>>
  ELSE IF Head(sorted).total_cost <= x.total_cost
       THEN <<Head(sorted)>> \o InsertByCost(Tail(sorted), x)
       ELSE <<x>> \o sorted

\* Variant: the list is left in the order it was generated
KeepOrder(rest, sorted) == sorted \o rest

RECURSIVE SortByCost(_, _)
SortByCost(rest, sorted) ==
  IF rest = <<>> THEN sorted
  ELSE SortByCost(Tail(rest), InsertByCost(sorted, Head(rest)))

\* panel_points.get(kind, 0) for the five requirement kinds
Requirements(points) == [pt \in ReqKindSet |-> points[pt]]

\* asb_solution for each server of the list, the None results dropped
RECURSIVE AsbSolutions(_, _, _)
AsbSolutions(accs, asb_servers, requirements) ==
  IF asb_servers = <<>> THEN <<>>
  ELSE generate_asb_solution(accs, Head(asb_servers), requirements)
         \o AsbSolutions(accs, Tail(asb_servers), requirements)

\* Variant: the last AS-P server of the catalog is used instead of the first
generate_server_solutions_last_asp(ctypes, mods, accs, points) ==
  LET requirements == Requirements(points)
      IsServer(c) == c.is_server
      IsASP(c) == Contains(c.name, TagASP)
      IsASB(c) == Contains(c.name, TagASB)
      servers == SelectSeq(ctypes, IsServer)
      asp_servers == SelectSeq(servers, IsASP)
      asp_part ==
        IF asp_servers = <<>> \/ AspRaises(mods) THEN <<>>
        ELSE generate_asp_solution(accs, asp_servers[Len(asp_servers)], requirements, mods)
      asb_part == AsbSolutions(accs, SelectSeq(servers, IsASB), requirements)
  IN SortByCost(asp_part \o asb_part, <<>>)

generate_optimal_server_solutions(ctypes, mods, accs, points) ==
  LET requirements == Requirements(points)
      IsServer(c) == c.is_server
      IsASP(c) == Contains(c.name, TagASP)
      IsASB(c) == Contains(c.name, TagASB)
      servers == SelectSeq(ctypes, IsServer)
      asp_servers == SelectSeq(servers, IsASP)
      asp_part ==
        IF asp_servers = <<>> \/ AspRaises(mods) THEN <<>>
        ELSE generate_asp_solution(accs, asp_servers[1], requirements, mods)
      asb_part == AsbSolutions(accs, SelectSeq(servers, IsASB), requirements)
  IN SortByCost(asp_part \o asb_part, <<>>)

\* ------------------------------------------------------------------------
\* run_controller_optimization and the panel's point dictionaries
\* ------------------------------------------------------------------------
\* math.ceil(count * spare_percentage / 100)
SparePoints(count, spare_percentage) == (count * spare_percentage + 99) \div 100

\* get_panel_point_requirements: the five kinds only, spare added per kind
get_panel_point_requirements(points, spare_percentage) ==
  [pt \in ReqKindSet |->
     IF spare_percentage > 0 /\ points[pt] > 0
     THEN points[pt] + SparePoints(points[pt], spare_percentage)
     ELSE points[pt]]

\* The entry of optimization_result for the panel: <<>> when the panel is
\* skipped or no controller fits
run_controller_optimization(ctypes, accs, points, spare_percentage) ==
  LET panel_points == get_panel_point_requirements(points, spare_percentage)
      NotServer(c) == ~c.is_server
      best_controller ==
        find_optimal_controller(ctypes, accs, panel_points, SelectSeq(ctypes, NotServer))
  IN IF SumValues(panel_points) = 0 THEN <<>>
     ELSE IF best_controller = <<>> THEN <<>>
     ELSE <<[controller_type_id |-> best_controller[1].controller_id,
             quantity |-> best_controller[1].quantity]>>

\* ------------------------------------------------------------------------
\* The caller's requirement dictionary after a solver call
\* ------------------------------------------------------------------------
\* A solver receives a reference to the caller's dictionary; the caller sees
\* every write made through a name bound to that object, and none made to a
\* copy.

\* find_optimal_controller: can_cover_with_n builds rem_reqs as a new
\* dictionary for every probe and lower_bound_n only reads reqs
requirements_after_find(ctypes, accs, point_requirements, controller_types) ==
  point_requirements

\* Variant: remaining_requirements is bound to the argument itself, so the
\* writes of the greedy loop land in the caller's dictionary
requirements_after_asp_aliased(accs, asp_server, requirements, server_modules) ==
  GreedyLoop(accs, sorted_modules(server_modules),
             [rem |-> requirements, required_modules |-> <<>>, total_cost |-> 0]).rem

\* generate_asp_solution: remaining_requirements = requirements.copy(), the
\* greedy loop writes to the copy
requirements_after_asp(accs, asp_server, requirements, server_modules) ==
  requirements

\* generate_asb_solution: remaining = requirements.copy(), and
\* total_capacity is a new dictionary
requirements_after_asb(accs, asb_server, requirements) ==
  requirements

\* ------------------------------------------------------------------------
\* generate_controller_boq: the controller part of the bill of quantities
\* ------------------------------------------------------------------------
\* One of the dictionaries controller_boq, module_boq, accessory_boq, as the
\* list of its entries in insertion order.  An entry is created with the
\* unit cost of the row that is met first; quantity is added to, and
\* total_cost is recomputed from the cost of the row at hand.
BoqAdd(boq_dict, part_num, qty, cost) ==
  LET present == \E i \in 1..Len(boq_dict) : boq_dict[i].part_number = part_num
      base == IF present THEN boq_dict
              ELSE Append(boq_dict, [part_number |-> part_num, quantity |-> 0,
                                     unit_cost |-> cost, total_cost |-> 0])
  IN [i \in 1..Len(base) |->
        IF base[i].part_number = part_num
        THEN [base[i] EXCEPT !.quantity = @ + qty,
                             !.total_cost = (base[i].quantity + qty) * cost]
        ELSE base[i]]

\* Variant: an accessory is counted once per selection, not once per unit
RECURSIVE AddAccessoriesFlat(_, _, _)
AddAccessoriesFlat(st, rows, qty) ==
  IF rows = <<>> THEN st
  ELSE LET accessory == Head(rows)
       IN AddAccessoriesFlat(
            [st EXCEPT !.accessory_boq = BoqAdd(@, accessory.part_number, 1, accessory.cost),
                       !.total_controller_cost = @ + accessory.cost],
            Tail(rows), qty)

\* The loop over the accessories of a parent selected at quantity qty
RECURSIVE AddAccessories(_, _, _)
AddAccessories(st, rows, qty) ==
  IF rows = <<>> THEN st
  ELSE LET accessory == Head(rows)
       IN AddAccessories(
            [st EXCEPT !.accessory_boq = BoqAdd(@, accessory.part_number, qty, accessory.cost),
                       !.total_controller_cost = @ + qty * accessory.cost],
            Tail(rows), qty)

\* if selection.controller_type: the controller and its accessories
AddController(st, ctypes, accs, selection) ==
  LET found == GetControllerType(ctypes, selection.controller_type_id)
  IN IF found = <<>> THEN st
     ELSE LET controller == found[1]
              st1 == [st EXCEPT
                        !.controller_boq = BoqAdd(@, controller.part_number,
                                                  selection.quantity, controller.cost),
                        !.total_controller_cost = @ + selection.quantity * controller.cost]
          IN AddAccessories(st1, AccessoriesOf(accs, controller.part_number),
                            selection.quantity)

\* The loop over the modules of a server selection; module_data is
\* [id, quantity], a module id that is not in the catalog is skipped
RECURSIVE AddModules(_, _, _, _)
AddModules(st, mods, accs, modules) ==
  IF modules = <<>> THEN st
  ELSE LET module_data == Head(modules)
           HasId(m) == m.id = module_data.id
           found == SelectSeq(mods, HasId)
       IN IF found = <<>> THEN AddModules(st, mods, accs, Tail(modules))
          ELSE LET module == found[1]
                   module_qty == module_data.quantity
                   st1 == [st EXCEPT
                             !.module_boq = BoqAdd(@, module.part_number, module_qty, module.cost),
                             !.total_controller_cost = @ + module_qty * module.cost]
                   st2 == AddAccessories(st1, AccessoriesOf(accs, module.part_number),
                                         module_qty)
               IN AddModules(st2, mods, accs, Tail(modules))

\* The loop over controller_selections
RECURSIVE BoqLoop(_, _, _, _, _)
BoqLoop(ctypes, mods, accs, selections, st) ==
  IF selections = <<>> THEN st
  ELSE LET selection == Head(selections)
           st1 == AddController(st, ctypes, accs, selection)
           st2 == IF selection.is_server_selection
                  THEN AddModules(st1, mods, accs, selection.server_modules)
                  ELSE st1
       IN BoqLoop(ctypes, mods, accs, Tail(selections), st2)

\* The controller part of the response (the field-device part is computed
\* from the scheduled equipment and does not enter these dictionaries)
generate_controller_boq(ctypes, mods, accs, selections) ==
  BoqLoop(ctypes, mods, accs, selections,
          [controller_boq |-> <<>>, module_boq |-> <<>>, accessory_boq |-> <<>>,
           total_controller_cost |-> 0])

\* ------------------------------------------------------------------------
\* State
\* ------------------------------------------------------------------------
VARIABLES
  panel_points,        \* the panel's point summary: count per point type
  controller_types,    \* ControllerType table, in id order
  server_modules,      \* ServerModule table
  accessories,         \* Accessory table
  call,                \* the function or handler that last ran, with its arguments
  best_option,         \* what find_optimal_controller returned
  optimization_result, \* run_controller_optimization's entry for the panel
  asp_solution,        \* what generate_asp_solution returned
  asb_solution,        \* what generate_asb_solution returned
  solutions,           \* what generate_optimal_server_solutions returned
  server_solutions,    \* get_controller_selection_data: <<list>> when the panel has an entry
  error,               \* the exception that escaped the call, "" when none
  controller_selections, \* ControllerSelection rows of the project, in query order
  boq,                 \* what generate_controller_boq returned, <<>> before
  caller_requirements, \* <<dictionary>> the caller passed to a solver, as the call left it
  project_owner,       \* Project table: owner of each project id
  current_user,        \* the logged-in user
  equipment_templates, \* EquipmentTemplate table, in id order
  equipment_presets,   \* EquipmentPreset table, in id order
  response,            \* the last request of the template and preset handlers, with its status
  run,                 \* a solver call executed loop iteration by loop iteration
  panels,              \* Panel table in id order, each row with its point summary
  users,               \* User table, in id order
  session              \* the user id in the session of each client, 0 when none

vars == <<panel_points, controller_types, server_modules, accessories, call,
          best_option, optimization_result, asp_solution, asb_solution,
          solutions, server_solutions, error, controller_selections, boq,
          caller_requirements, project_owner, current_user, equipment_templates,
          equipment_presets, response, run, panels, users, session>>

\* The User table and the sessions
accounts == <<users, session>>

\* The Panel table and the accounts
tables == <<panels, accounts>>

\* The tables and the session of the template and preset handlers
presets_state == <<project_owner, current_user, equipment_templates, equipment_presets,
                   response>>

\* What the solvers and the BOQ read, and what they have no part in
catalog == <<panel_points, controller_types, server_modules, accessories,
             controller_selections, presets_state, run, tables>>

\* Results of the handlers other than the solvers
more == <<boq, caller_requirements>>
results == <<best_option, optimization_result, asp_solution, asb_solution,
             solutions, server_solutions, error>>

Idle == [fn |-> "idle", server |-> 0, spare |-> 0]

NoResults ==
  /\ best_option = <<>>
  /\ optimization_result = <<>>
  /\ asp_solution = <<>>
  /\ asb_solution = <<>>
  /\ solutions = <<>>
  /\ server_solutions = <<>>
  /\ error = ""
  /\ boq = <<>>
  /\ caller_requirements = <<>>

\* No solver call is in progress
NotRunning ==
  [pc |-> "idle", fn |-> "", i |-> 0, n |-> 0, stop |-> 0, probes |-> 0,
   best |-> <<>>, rem |-> <<>>, units |-> 0, raised |-> FALSE]

NoResponse == [handler |-> "", project_id |-> 0, data |-> <<>>, status |-> 0]

\* Projects 1 and 2 belong to one user, project 3 to another
Owners == [p \in {1, 2, 3} |-> IF p = 3 THEN "u2" ELSE "u1"]

Clients == {"c1", "c2"}

NoTables ==
  /\ panels = <<>>
  /\ users = <<>>
  /\ session = [c \in Clients |-> 0]

NoPresets ==
  /\ project_owner = Owners
  /\ equipment_templates = <<>>
  /\ equipment_presets = <<>>
  /\ response = NoResponse

\* ------------------------------------------------------------------------
\* Input domains
\* ------------------------------------------------------------------------
PointTypes == ReqKindSet \cup {"UNKNOWN"}
ZeroPoints == [t \in PointTypes |-> 0]

\* Summaries of at most n scheduled point entries, each of one type and
\* with point_repeat drawn from repeats
RECURSIVE PointSums(_, _, _)
PointSums(n, types, repeats) ==
  IF n = 0 THEN {ZeroPoints}
  ELSE LET prev == PointSums(n - 1, types, repeats)
       IN prev \cup {[p EXCEPT ![t] = @ + r] : p \in prev, t \in types, r \in repeats}

ZeroCap == [k \in CapKindSet |-> 0]

\* Capacity vectors with at most one kind of terminal, taken from kinds
SingleKindCaps(kinds, v) == {ZeroCap} \cup {[ZeroCap EXCEPT ![k] = v] : k \in kinds}

ControllerRow(id, name, pn, cap, cost, is_server) ==
  [id |-> id, name |-> name, part_number |-> pn,
   ai_capacity |-> cap["AI"], ao_capacity |-> cap["AO"],
   di_capacity |-> cap["DI"], do_capacity |-> cap["DO"],
   ui_capacity |-> cap["UI"], uo_capacity |-> cap["UO"],
   uio_capacity |-> cap["UIO"], cost |-> cost, is_server |-> is_server]

ModuleRow(id, pn, cap, cost) ==
  [id |-> id, part_number |-> pn,
   ai_capacity |-> cap["AI"], ao_capacity |-> cap["AO"],
   di_capacity |-> cap["DI"], do_capacity |-> cap["DO"],
   ui_capacity |-> cap["UI"], uo_capacity |-> cap["UO"],
   uio_capacity |-> cap["UIO"], cost |-> cost]

AccessoryRow(parent, pn, cost) ==
  [parent_part_number |-> parent, part_number |-> pn, cost |-> cost]

NameASP == <<"A", "S", "-", "P">>
NameASB == <<"A", "S", "-", "B", "-", "2", "4">>
NameController == <<"M", "P", "-", "C">>

\* Two accessories; a parent that is no part number of the catalog leaves
\* the accessory unused
AccessoryTables(parents) ==
  {<<AccessoryRow(p1, "A1", 1), AccessoryRow(p2, "A2", MaxCost)>> :
     p1 \in parents, p2 \in parents}

\* ------------------------------------------------------------------------
\* Actions: one per solver function or handler
\* ------------------------------------------------------------------------
Servers == SelectSeq(controller_types, LAMBDA c : c.is_server)
ServersASP == SelectSeq(Servers, LAMBDA c : Contains(c.name, TagASP))
ServersASB == SelectSeq(Servers, LAMBDA c : Contains(c.name, TagASB))
Controllers == SelectSeq(controller_types, LAMBDA c : ~c.is_server)

\* find_optimal_controller(point_requirements, controller_types)
FindOptimalController ==
  /\ call = Idle
  /\ call' = [Idle EXCEPT !.fn = "find_optimal_controller"]
  /\ best_option' = find_optimal_controller(controller_types, accessories,
                                             Requirements(panel_points), Controllers)
  /\ UNCHANGED <<catalog, optimization_result, asp_solution, asb_solution,
                 solutions, server_solutions, error>>
  /\ caller_requirements' =
       <<requirements_after_find(controller_types, accessories,
                                 Requirements(panel_points), Controllers)>>
  /\ UNCHANGED boq

\* run_controller_optimization(project_id, [panel], spare_percentage)
RunControllerOptimization ==
  /\ call = Idle
  /\ \E spare \in {0, 50} :
       /\ call' = [Idle EXCEPT !.fn = "run_controller_optimization", !.spare = spare]
       /\ optimization_result' =
            run_controller_optimization(controller_types, accessories, panel_points, spare)
  /\ UNCHANGED <<catalog, best_option, asp_solution, asb_solution,
                 solutions, server_solutions, error>>
  /\ UNCHANGED more

\* generate_asp_solution(asp_server, requirements, server_modules)
GenerateAspSolution ==
  /\ call = Idle
  /\ \E i \in 1..Len(ServersASP) :
       /\ call' = [Idle EXCEPT !.fn = "generate_asp_solution", !.server = ServersASP[i].id]
       /\ caller_requirements' =
            IF AspRaises(server_modules) THEN <<Requirements(panel_points)>>
            ELSE <<requirements_after_asp(accessories, ServersASP[i],
                                          Requirements(panel_points), server_modules)>>
       /\ IF AspRaises(server_modules)
          THEN /\ error' = "ZeroDivisionError"
               /\ asp_solution' = asp_solution
          ELSE /\ error' = error
               /\ asp_solution' = generate_asp_solution(accessories, ServersASP[i],
                                      Requirements(panel_points), server_modules)
  /\ UNCHANGED <<catalog, best_option, optimization_result, asb_solution,
                 solutions, server_solutions>>
  /\ UNCHANGED boq

\* generate_asb_solution(asb_server, requirements)
GenerateAsbSolution ==
  /\ call = Idle
  /\ \E i \in 1..Len(ServersASB) :
       /\ call' = [Idle EXCEPT !.fn = "generate_asb_solution", !.server = ServersASB[i].id]
       /\ caller_requirements' =
            <<requirements_after_asb(accessories, ServersASB[i], Requirements(panel_points))>>
       /\ asb_solution' = generate_asb_solution(accessories, ServersASB[i],
                                                 Requirements(panel_points))
  /\ UNCHANGED <<catalog, best_option, optimization_result, asp_solution,
                 solutions, server_solutions, error>>
  /\ UNCHANGED boq

\* generate_optimal_server_solutions(panel_points)
GenerateOptimalServerSolutions ==
  /\ call = Idle
  /\ call' = [Idle EXCEPT !.fn = "generate_optimal_server_solutions"]
  /\ solutions' = generate_optimal_server_solutions(controller_types, server_modules,
                                                     accessories, panel_points)
  /\ UNCHANGED <<catalog, best_option, optimization_result, asp_solution,
                 asb_solution, server_solutions, error>>
  /\ UNCHANGED more

\* get_controller_selection_data: the server_solutions entry of the panel,
\* present only when the panel's point dictionary is not empty
GetControllerSelectionData ==
  /\ call = Idle
  /\ call' = [Idle EXCEPT !.fn = "get_controller_selection_data"]
  /\ server_solutions' =
       IF \E t \in PointTypes : panel_points[t] > 0
       THEN <<generate_optimal_server_solutions(controller_types, server_modules,
                                                accessories, panel_points)>>
       ELSE <<>>
  /\ UNCHANGED <<catalog, best_option, optimization_result, asp_solution,
                 asb_solution, solutions, error>>
  /\ UNCHANGED more

\* generate_controller_boq(project_id)
GenerateControllerBoq ==
  /\ call = Idle
  /\ call' = [Idle EXCEPT !.fn = "generate_controller_boq"]
  /\ boq' = <<generate_controller_boq(controller_types, server_modules, accessories,
                                       controller_selections)>>
  /\ UNCHANGED <<catalog, results, caller_requirements>>

\* The call returns: its locals are dropped and the next request may start
Return ==
  /\ call # Idle
  /\ call' = Idle
  /\ best_option' = <<>>
  /\ optimization_result' = <<>>
  /\ asp_solution' = <<>>
  /\ asb_solution' = <<>>
  /\ solutions' = <<>>
  /\ server_solutions' = <<>>
  /\ error' = ""
  /\ boq' = <<>>
  /\ caller_requirements' = <<>>
  /\ UNCHANGED catalog

\* ------------------------------------------------------------------------
\* add_equipment_template and create_equipment_preset
\* ------------------------------------------------------------------------
ProjectIds == DOMAIN Owners \cup {4}        \* 4 is no project: get_or_404
TypeKeys == {"AHU", "FCU"}
PresetNames == {"P1", "P2"}
PresetFields == {"name", "equipment_template_id", "quantity", "selectedPoints"}

\* Request bodies: [fields |-> the keys present, ...]; no fields is an empty body
TemplateRequests ==
  [fields : {{"typeKey", "name", "points"}, {"typeKey", "name"}}, typeKey : TypeKeys]

PresetRequests ==
  [fields : {PresetFields, {}} \cup {PresetFields \ {f} : f \in PresetFields},
   name : PresetNames,
   equipment_template_id : 1..(MaxTemplates + 1)]

Responded(handler, project_id, data, status) ==
  [handler |-> handler, project_id |-> project_id, data |-> <<data>>, status |-> status]

\* Status of add_equipment_template for the request
add_equipment_template_status(project_id, data) ==
  IF project_id \notin DOMAIN project_owner THEN 404
  ELSE IF project_owner[project_id] # current_user THEN 403
  ELSE IF ~({"typeKey", "name", "points"} \subseteq data.fields) THEN 400
  ELSE IF \E i \in 1..Len(equipment_templates) :
             equipment_templates[i].type_key = data.typeKey THEN 409
  ELSE 201

AddEquipmentTemplate ==
  \E project_id \in ProjectIds, data \in TemplateRequests :
     LET status == add_equipment_template_status(project_id, data)
     IN /\ status = 201 => Len(equipment_templates) < MaxTemplates
        /\ response' = Responded("add_equipment_template", project_id, data, status)
        /\ equipment_templates' =
             IF status = 201
             THEN Append(equipment_templates,
                         [id |-> Len(equipment_templates) + 1, project_id |-> project_id,
                          type_key |-> data.typeKey])
             ELSE equipment_templates
        /\ UNCHANGED <<panel_points, controller_types, server_modules, accessories,
                       controller_selections, project_owner, current_user,
                       equipment_presets, call, results, more, run, tables>>

\* EquipmentTemplate.query.filter_by(id=..., project_id=project_id).first()
template_of_project(project_id, id) ==
  SelectSeq(equipment_templates, LAMBDA t : t.id = id /\ t.project_id = project_id)

\* Status of create_equipment_preset for the request
create_equipment_preset_status(project_id, data) ==
  IF project_id \notin DOMAIN project_owner THEN 404
  ELSE IF project_owner[project_id] # current_user THEN 403
  ELSE IF data.fields = {} THEN 400
  ELSE IF ~(PresetFields \subseteq data.fields) THEN 400
  ELSE IF template_of_project(project_id, data.equipment_template_id) = <<>> THEN 404
  ELSE IF \E i \in 1..Len(equipment_presets) :
             /\ equipment_presets[i].project_id = project_id
             /\ equipment_presets[i].name = data.name THEN 409
  ELSE 201

CreateEquipmentPreset ==
  \E project_id \in ProjectIds, data \in PresetRequests :
     LET status == create_equipment_preset_status(project_id, data)
     IN /\ status = 201 => Len(equipment_presets) < MaxPresets
        /\ response' = Responded("create_equipment_preset", project_id, data, status)
        /\ equipment_presets' =
             IF status = 201
             THEN Append(equipment_presets,
                         [project_id |-> project_id, name |-> data.name,
                          equipment_template_id |-> data.equipment_template_id])
             ELSE equipment_presets
        /\ UNCHANGED <<panel_points, controller_types, server_modules, accessories,
                       controller_selections, project_owner, current_user,
                       equipment_templates, call, results, more, run, tables>>

NextPresets ==
  \/ AddEquipmentTemplate
  \/ CreateEquipmentPreset

\* ------------------------------------------------------------------------
\* Panels, scheduled equipment and the stored controller selections
\* ------------------------------------------------------------------------
MaxPanels == 3

PanelNames == {"P1"}
PanelIds == 1..MaxPanels

\* The project ids of the requests: the user's own, another user's, none
ProjectInputs == {1, 3, 4}

\* INTEGER PRIMARY KEY of SQLite: one more than the largest id in the table
NextId(table) == IF table = <<>> THEN 1 ELSE table[Len(table)].id + 1

\* A Panel row; points is the summary of the ScheduledEquipment rows of the
\* panel, which live and die with it
PanelRow(id, project_id, panel_name) ==
  [id |-> id, project_id |-> project_id, panel_name |-> panel_name, points |-> ZeroPoints]

\* Number of points scheduled on a panel, of every type
ScheduledPoints(points) == SumValues(points) + points["UNKNOWN"]

\* Project.query.get_or_404(project_id), then the owner test
project_status(project_id) ==
  IF project_id \notin DOMAIN project_owner THEN 404
  ELSE IF project_owner[project_id] # current_user THEN 403
  ELSE 200

\* Panel.query.filter_by(panel_name=..., project_id=...).first()
PanelNamed(table, project_id, panel_name) ==
  SelectSeq(table, LAMBDA p : p.panel_name = panel_name /\ p.project_id = project_id)

\* Panel.query.get(panel_id)
GetPanel(panel_id) == SelectSeq(panels, LAMBDA p : p.id = panel_id)

AddPanel ==
  \E project_id \in ProjectInputs, panelName \in PanelNames :
     LET status == project_status(project_id)
     IN /\ status = 200 => Len(panels) < MaxPanels
        /\ response' = Responded("add_panel", project_id, 0,
                                  IF status = 200 THEN 201 ELSE status)
        /\ panels' = IF status = 200
                      THEN Append(panels, PanelRow(NextId(panels), project_id, panelName))
                      ELSE panels
        /\ UNCHANGED <<panel_points, controller_types, server_modules, accessories,
                       controller_selections, project_owner, current_user,
                       equipment_templates, equipment_presets, call, results, more,
                       run, accounts>>

\* add_equipment: the panel is created and committed before the template is
\* looked up; the new equipment has one selected point of the given type
AddEquipment ==
  \E project_id \in ProjectInputs, panelName \in PanelNames, type \in TypeKeys,
     point_type \in {"AI"} :
     LET status == project_status(project_id)
         found == PanelNamed(panels, project_id, panelName)
         with_panel == IF found = <<>>
                       THEN Append(panels, PanelRow(NextId(panels), project_id, panelName))
                       ELSE panels
         panel == PanelNamed(with_panel, project_id, panelName)[1]
         template == SelectSeq(equipment_templates, LAMBDA t : t.type_key = type)
         Scheduled(p) == IF p.id = panel.id
                         THEN [p EXCEPT !.points[point_type] = @ + 1]
                         ELSE p
     IN /\ (status = 200 /\ found = <<>>) => Len(panels) < MaxPanels
        /\ (status = 200 /\ template # <<>>) => ScheduledPoints(panel.points) < MaxEquip
        /\ response' = Responded("add_equipment", project_id, 0,
                                  IF status # 200 THEN status
                                  ELSE IF template = <<>> THEN 404 ELSE 201)
        /\ panels' = IF status # 200 THEN panels
                      ELSE IF template = <<>> THEN with_panel
                      ELSE [i \in 1..Len(with_panel) |-> Scheduled(with_panel[i])]
        /\ UNCHANGED <<panel_points, controller_types, server_modules, accessories,
                       controller_selections, project_owner, current_user,
                       equipment_templates, equipment_presets, call, results, more,
                       run, accounts>>

\* A ControllerSelection row as optimize_controller_selection stores it
StoredSelection(project_id, panel_id, ct, qty, srv, auto, modules, total_cost) ==
  [project_id |-> project_id, panel_id |-> panel_id, controller_type_id |-> ct,
   quantity |-> qty, is_server_selection |-> srv, is_auto_optimized |-> auto,
   server_modules |-> modules, total_cost |-> total_cost]

\* server_panels of the request body: a list of panel ids
ServerPanelLists ==
  {<<>>} \cup {<<a>> : a \in PanelIds} \cup {<<a, b>> : a \in PanelIds, b \in PanelIds}

\* The solution a client sends back for a server panel
SelectedSolution == [server_id |-> 1, modules |-> <<>>, total_cost |-> 1]

\* for panel_id in server_panels: one row per entry that has a selected solution
RECURSIVE ServerSelections(_, _, _)
ServerSelections(project_id, server_panels, selected_solutions) ==
  IF server_panels = <<>> THEN <<>>
  ELSE (IF Head(server_panels) \in selected_solutions
        THEN <<StoredSelection(project_id, Head(server_panels), SelectedSolution.server_id,
                               1, TRUE, FALSE, SelectedSolution.modules,
                               SelectedSolution.total_cost)>>
        ELSE <<>>)
       \o ServerSelections(project_id, Tail(server_panels), selected_solutions)

\* for panel_id, controller_selection in optimization_result.items()
RECURSIVE OptimizedSelections(_, _, _)
OptimizedSelections(project_id, panels_to_optimize, spare_percentage) ==
  IF panels_to_optimize = <<>> THEN <<>>
  ELSE LET panel == Head(panels_to_optimize)
           entry == run_controller_optimization(controller_types, accessories,
                                                panel.points, spare_percentage)
       IN (IF entry = <<>> THEN <<>>
           ELSE <<StoredSelection(project_id, panel.id, entry[1].controller_type_id,
                                  entry[1].quantity, FALSE, TRUE, <<>>,
                                  calculate_controller_cost_with_accessories(
                                     controller_types, accessories,
                                     entry[1].controller_type_id))>>)
          \o OptimizedSelections(project_id, Tail(panels_to_optimize), spare_percentage)

\* get_controller_selection_data after the commit: to_dict of a selection
\* reads self.panel.panel_name, an AttributeError when the panel is gone
get_controller_selection_data_status(existing_selections) ==
  IF \E i \in 1..Len(existing_selections) :
        GetPanel(existing_selections[i].panel_id) = <<>>
  THEN 500 ELSE 200

OptimizeControllerSelection ==
  \E project_id \in ProjectInputs, server_panels \in ServerPanelLists,
     spare_percentage \in {0} :
   \E selected_solutions \in SUBSET {server_panels[i] : i \in 1..Len(server_panels)} :
     LET status == project_status(project_id)
         others == SelectSeq(controller_selections, LAMBDA s : s.project_id # project_id)
         panels_to_optimize ==
           SelectSeq(panels, LAMBDA p : /\ p.project_id = project_id
                                        /\ \A i \in 1..Len(server_panels) :
                                              server_panels[i] # p.id)
         saved == ServerSelections(project_id, server_panels, selected_solutions)
                    \o OptimizedSelections(project_id, panels_to_optimize, spare_percentage)
     IN /\ response' = Responded("optimize_controller_selection", project_id, 0,
                                  IF status # 200 THEN status
                                  ELSE get_controller_selection_data_status(saved))
        /\ controller_selections' =
             IF status # 200 THEN controller_selections ELSE others \o saved
        /\ UNCHANGED <<panel_points, controller_types, server_modules, accessories,
                       project_owner, current_user, equipment_templates,
                       equipment_presets, call, results, more, run, tables>>

\* Status of delete_panel for the request
delete_panel_status(project_id, panel_id, confirmed) ==
  IF project_status(project_id) # 200 THEN project_status(project_id)
  ELSE IF GetPanel(panel_id) = <<>> THEN 404
  ELSE IF GetPanel(panel_id)[1].project_id # project_id THEN 400
  ELSE IF ~confirmed THEN 400
  ELSE 200

\* db.session.delete(panel): the panel and, by cascade, its equipment
DeletePanel ==
  \E project_id \in ProjectInputs, panel_id \in PanelIds, confirmed \in BOOLEAN :
     LET status == delete_panel_status(project_id, panel_id, confirmed)
     IN /\ response' = Responded("delete_panel", project_id, 0, status)
        /\ panels' = IF status = 200
                      THEN SelectSeq(panels, LAMBDA p : p.id # panel_id)
                      ELSE panels
        /\ UNCHANGED <<panel_points, controller_types, server_modules, accessories,
                       controller_selections, project_owner, current_user,
                       equipment_templates, equipment_presets, call, results, more,
                       run, accounts>>

\* delete_project: the equipment and the panels of the project, then the
\* project row
DeleteProject ==
  \E project_id \in ProjectInputs, confirmed \in BOOLEAN :
     LET status == IF project_status(project_id) # 200 THEN project_status(project_id)
                   ELSE IF ~confirmed THEN 400 ELSE 200
     IN /\ response' = Responded("delete_project", project_id, 0, status)
        /\ panels' = IF status = 200
                      THEN SelectSeq(panels, LAMBDA p : p.project_id # project_id)
                      ELSE panels
        /\ project_owner' =
             IF status = 200
             THEN [p \in DOMAIN project_owner \ {project_id} |-> project_owner[p]]
             ELSE project_owner
        /\ UNCHANGED <<panel_points, controller_types, server_modules, accessories,
                       controller_selections, current_user, equipment_templates,
                       equipment_presets, call, results, more, run, accounts>>

NextProjects ==
  \/ AddPanel
  \/ AddEquipment
  \/ OptimizeControllerSelection
  \/ DeletePanel
  \/ DeleteProject

\* ------------------------------------------------------------------------
\* Accounts: register, login, logout and the admin handlers
\* ------------------------------------------------------------------------
MaxUsers == 2

Usernames == {"admin", "u2"}
Passwords == {"pw", "bad"}
UserIds == 1..MaxUsers

UserRow(id, username, password, is_approved, is_admin) ==
  [id |-> id, username |-> username, password |-> password,
   is_approved |-> is_approved, is_admin |-> is_admin]

\* bcrypt: the hash is a value of its own, and a password matches the hash
\* made from it and no other
generate_password_hash(password) == <<"bcrypt", password>>
check_password_hash(pw_hash, password) == pw_hash = generate_password_hash(password)

\* User.query.get(user_id)
GetUser(user_id) == SelectSeq(users, LAMBDA u : u.id = user_id)

\* User.query.filter_by(username=...).first()
UserNamed(username) == SelectSeq(users, LAMBDA u : u.username = username)

\* load_user: current_user of a request of the client, empty when anonymous
CurrentUser(c) == GetUser(session[c])

\* The parts of the state no account handler touches
beside_accounts == <<panel_points, controller_types, server_modules, accessories,
                     controller_selections, current_user, equipment_templates,
                     equipment_presets, call, results, more, run>>

\* The response of an account handler: where it redirects to or what its
\* JSON body says
Said(handler, c, target, outcome, status) ==
  Responded(handler, 0, [client |-> c, target |-> target, outcome |-> outcome], status)

\* Variant: login does not look at is_approved
login_outcome_unapproved(c, username, password) ==
  LET user == UserNamed(username)
  IN IF CurrentUser(c) # <<>> THEN "project_selection"
     ELSE IF user # <<>> /\ check_password_hash(user[1].password, password)
     THEN "success"
     ELSE "unsuccessful"

login_outcome(c, username, password) ==
  LET user == UserNamed(username)
  IN IF CurrentUser(c) # <<>> THEN "project_selection"
     ELSE IF user # <<>> /\ check_password_hash(user[1].password, password)
     THEN (IF ~user[1].is_approved THEN "pending approval" ELSE "success")
     ELSE "unsuccessful"

Login ==
  \E c \in Clients, username \in Usernames, password \in Passwords :
     LET outcome == login_outcome(c, username, password)
     IN /\ response' = Said("login", c, <<username, password>>, outcome,
                             CASE outcome = "project_selection" -> 302
                               [] outcome = "success" -> 200
                               [] OTHER -> 401)
        /\ session' = IF outcome = "success"
                       THEN [session EXCEPT ![c] = UserNamed(username)[1].id]
                       ELSE session
        /\ UNCHANGED <<users, panels, project_owner, beside_accounts>>

Register ==
  \E c \in Clients, username \in Usernames :
     LET outcome == IF CurrentUser(c) # <<>> THEN "project_selection"
                    ELSE IF UserNamed(username) # <<>> THEN "exists"
                    ELSE "login"
     IN /\ outcome = "login" => Len(users) < MaxUsers
        /\ response' = Said("register", c, username, outcome,
                             CASE outcome = "project_selection" -> 302
                               [] outcome = "exists" -> 400
                               [] OTHER -> 200)
        /\ users' = IF outcome = "login"
                     THEN Append(users, UserRow(NextId(users), username,
                                                generate_password_hash("pw"), FALSE, FALSE))
                     ELSE users
        /\ UNCHANGED <<session, panels, project_owner, beside_accounts>>

Logout ==
  \E c \in Clients :
     /\ response' = Said("logout", c, session[c],
                          IF CurrentUser(c) = <<>> THEN "login_required" ELSE "login", 302)
     /\ session' = IF CurrentUser(c) = <<>> THEN session ELSE [session EXCEPT ![c] = 0]
     /\ UNCHANGED <<users, panels, project_owner, beside_accounts>>

\* login_required, admin_required, then get_or_404
admin_gate(c, user_id) ==
  IF CurrentUser(c) = <<>> THEN "login_required"
  ELSE IF ~CurrentUser(c)[1].is_admin THEN "admin_required"
  ELSE IF GetUser(user_id) = <<>> THEN "not found"
  ELSE "pass"

AdminStatus(outcome) ==
  CASE outcome = "not found" -> 404
    [] outcome = "mismatch" -> 400
    [] outcome = "success" -> 200
    [] OTHER -> 302

ApproveUser ==
  \E c \in Clients, user_id \in UserIds :
     LET gate == admin_gate(c, user_id)
         outcome == IF gate # "pass" THEN gate ELSE "approved"
     IN /\ response' = Said("approve_user", c, user_id, outcome, AdminStatus(outcome))
        /\ users' = IF outcome = "approved"
                     THEN [i \in 1..Len(users) |->
                             IF users[i].id = user_id
                             THEN [users[i] EXCEPT !.is_approved = TRUE]
                             ELSE users[i]]
                     ELSE users
        /\ UNCHANGED <<session, panels, project_owner, beside_accounts>>

\* Variant: an admin may change their own admin status
toggle_user_admin_outcome_any(c, user_id) ==
  LET gate == admin_gate(c, user_id)
  IN IF gate # "pass" THEN gate ELSE "toggled"

toggle_user_admin_outcome(c, user_id) ==
  LET gate == admin_gate(c, user_id)
  IN IF gate # "pass" THEN gate
     ELSE IF user_id = CurrentUser(c)[1].id THEN "own status"
     ELSE "toggled"

ToggleUserAdmin ==
  \E c \in Clients, user_id \in UserIds :
     LET outcome == toggle_user_admin_outcome(c, user_id)
     IN /\ response' = Said("toggle_user_admin", c, user_id, outcome, AdminStatus(outcome))
        /\ users' = IF outcome = "toggled"
                     THEN [i \in 1..Len(users) |->
                             IF users[i].id = user_id
                             THEN [users[i] EXCEPT !.is_admin = ~@]
                             ELSE users[i]]
                     ELSE users
        /\ UNCHANGED <<session, panels, project_owner, beside_accounts>>

delete_user_outcome(c, user_id, confirmed) ==
  LET gate == admin_gate(c, user_id)
  IN IF gate # "pass" THEN gate
     ELSE IF user_id = CurrentUser(c)[1].id THEN "own account"
     ELSE IF ~confirmed THEN "mismatch"
     ELSE "success"

\* delete_user: the projects of the user with their panels, then the user
DeleteUser ==
  \E c \in Clients, user_id \in UserIds, confirmed \in BOOLEAN :
     LET outcome == delete_user_outcome(c, user_id, confirmed)
         projects == {p \in DOMAIN project_owner :
                        project_owner[p] = GetUser(user_id)[1].username}
     IN /\ response' = Said("delete_user", c, user_id, outcome, AdminStatus(outcome))
        /\ IF outcome = "success"
           THEN /\ users' = SelectSeq(users, LAMBDA u : u.id # user_id)
                /\ panels' = SelectSeq(panels, LAMBDA p : p.project_id \notin projects)
                /\ project_owner' =
                     [p \in DOMAIN project_owner \ projects |-> project_owner[p]]
           ELSE UNCHANGED <<users, panels, project_owner>>
        /\ UNCHANGED <<session, beside_accounts>>

NextAccounts ==
  \/ Login
  \/ Register
  \/ Logout
  \/ ApproveUser
  \/ ToggleUserAdmin
  \/ DeleteUser

\* ------------------------------------------------------------------------
\* The loops of find_optimal_controller and generate_asp_solution, one
\* iteration per step
\* ------------------------------------------------------------------------
\* Variant: the range of the probe loop is one quantity longer
ProbeStopLater(n_start) == n_start + ProbeWindow + 1

\* range(int(n_start), int(n_start) + 20)
ProbeStop(n_start) == n_start + ProbeWindow

Others == <<panel_points, controller_types, server_modules, accessories,
            controller_selections, presets_state, call, results, more, tables>>

\* find_optimal_controller is called: best_option = None, the for loop starts
BeginFind ==
  /\ run.pc = "idle"
  /\ run' = [NotRunning EXCEPT !.pc = "for_controller", !.fn = "find_optimal_controller",
                               !.i = 1, !.rem = Requirements(panel_points)]
  /\ UNCHANGED Others

\* for controller in controller_types: lower_bound_n, continue when infinite
ForController ==
  /\ run.pc = "for_controller"
  /\ run' =
       IF run.i > Len(Controllers) THEN [run EXCEPT !.pc = "done"]
       ELSE LET n_start == lower_bound_n(Controllers[run.i], run.rem)
            IN IF n_start.inf THEN [run EXCEPT !.i = @ + 1]
               ELSE [run EXCEPT !.pc = "probe", !.n = n_start.n,
                                !.stop = ProbeStop(n_start.n), !.probes = 0]
  /\ UNCHANGED Others

\* One iteration of for n in range(...): the range is exhausted, or n is
\* probed and either accepted (break) or passed over; covers is what
\* can_cover_with_n answers for n
AfterProbe(r, ctypes, accs, controller, covers) ==
  LET total_cost == calculate_controller_cost_with_accessories(ctypes, accs, controller.id) * r.n
      better == IF r.best = <<>> THEN TRUE ELSE total_cost < r.best[1].cost
      option == [controller_id |-> controller.id, quantity |-> r.n, cost |-> total_cost]
  IN IF r.n >= r.stop THEN [r EXCEPT !.pc = "for_controller", !.i = @ + 1]
     ELSE IF covers
     THEN [r EXCEPT !.pc = "for_controller", !.i = @ + 1, !.probes = @ + 1,
                    !.best = IF better THEN <<option>> ELSE @]
     ELSE [r EXCEPT !.n = @ + 1, !.probes = @ + 1]

ProbeQuantity ==
  /\ run.pc = "probe"
  /\ run' = AfterProbe(run, controller_types, accessories, Controllers[run.i],
                       can_cover_with_n(Controllers[run.i], run.rem, run.n))
  /\ UNCHANGED Others

\* The iteration of the probe loop with either answer of can_cover_with_n
ProbeEitherWay ==
  /\ run.pc = "probe"
  /\ \E covers \in BOOLEAN :
        run' = AfterProbe(run, controller_types, accessories, Controllers[run.i], covers)
  /\ UNCHANGED Others

\* generate_asp_solution is called: the modules are scored and sorted, which
\* raises on a module of cost 0, and the greedy for loop starts
BeginAsp ==
  /\ run.pc = "idle"
  /\ ServersASP # <<>>
  /\ run' =
       IF AspRaises(server_modules)
       THEN [NotRunning EXCEPT !.pc = "done", !.fn = "generate_asp_solution",
                               !.raised = TRUE]
       ELSE [NotRunning EXCEPT !.pc = "for_module", !.fn = "generate_asp_solution",
                               !.i = 1, !.rem = Requirements(panel_points)]
  /\ UNCHANGED Others

\* for module in sorted_modules
ForModule ==
  /\ run.pc = "for_module"
  /\ run' = IF run.i > Len(sorted_modules(server_modules)) THEN [run EXCEPT !.pc = "done"]
            ELSE [run EXCEPT !.pc = "while"]
  /\ UNCHANGED Others

\* One iteration of while True: the module does not help (break), the unit
\* changes nothing and is removed (break), or the unit is kept; the loops
\* end when nothing remains. after is rem_ai .. rem_ui with the unit attached
AfterWhile(r, module, after) ==
  IF ~Helps(module, r.rem) THEN [r EXCEPT !.pc = "for_module", !.i = @ + 1]
  ELSE IF after = r.rem THEN [r EXCEPT !.pc = "for_module", !.i = @ + 1]
  ELSE IF SumValues(after) = 0
  THEN [r EXCEPT !.pc = "done", !.rem = after, !.units = @ + 1]
  ELSE [r EXCEPT !.rem = after, !.units = @ + 1]

WhileUnit ==
  /\ run.pc = "while"
  /\ run' = AfterWhile(run, sorted_modules(server_modules)[run.i],
                       AfterModule(sorted_modules(server_modules)[run.i], run.rem))
  /\ UNCHANGED Others

\* The iteration of the while loop with any residual one unit can leave: no
\* kind goes down by more than the unit has terminals
WhileEitherWay ==
  /\ run.pc = "while"
  /\ \E served \in [ReqKindSet -> 0..TotalPoints(sorted_modules(server_modules)[run.i])] :
        run' = AfterWhile(run, sorted_modules(server_modules)[run.i],
                          [pt \in ReqKindSet |-> Max(0, run.rem[pt] - served[pt])])
  /\ UNCHANGED Others

\* The call returns or raises
EndCall ==
  /\ run.pc = "done"
  /\ run' = NotRunning
  /\ UNCHANGED Others

NextLoops ==
  \/ BeginFind
  \/ ForController
  \/ ProbeQuantity
  \/ BeginAsp
  \/ ForModule
  \/ WhileUnit
  \/ EndCall

Next ==
  \/ FindOptimalController
  \/ RunControllerOptimization
  \/ GenerateAspSolution
  \/ GenerateAsbSolution
  \/ GenerateOptimalServerSolutions
  \/ GetControllerSelectionData
  \/ GenerateControllerBoq
  \/ Return

\* ------------------------------------------------------------------------
\* Specifications: the same program over different catalogs
\* ------------------------------------------------------------------------
Only(kind, v) == [ZeroCap EXCEPT ![kind] = v]

Start ==
  /\ call = Idle
  /\ NoResults
  /\ NoPresets
  /\ current_user = "u1"
  /\ run = NotRunning
  /\ NoTables

\* Spec: the non-server controllers and their accessories vary
Init ==
  /\ panel_points \in PointSums(MaxEquip, ReqKindSet, {1, BigRepeat})
  /\ \E c1 \in SingleKindCaps(CapKindSet, MaxCap),
        c2 \in SingleKindCaps({"UI", "UIO"}, MaxCap + 1) :
       controller_types =
         <<ControllerRow(1, NameASP, "S1", ZeroCap, 1, TRUE),
           ControllerRow(2, NameASB, "S2", Only("UIO", BigRepeat), 1, TRUE),
           ControllerRow(3, NameController, "C1", c1, 1, FALSE),
           ControllerRow(4, NameController, "C2", c2, 1, FALSE)>>
  /\ server_modules = <<ModuleRow(1, "M1", Only("UIO", BigRepeat), 1)>>
  /\ accessories \in AccessoryTables({"C1", "C2"})
  /\ controller_selections = <<>>
  /\ Start

Spec == Init /\ [][Next]_vars

\* SpecEngine: one controller with every mix of terminal kinds
InitEngine ==
  /\ panel_points \in PointSums(MaxEquip, ReqKindSet, {1, BigRepeat})
  /\ \E c1 \in [CapKindSet -> {0, MaxCap}] :
       controller_types =
         <<ControllerRow(1, NameASP, "S1", ZeroCap, 1, TRUE),
           ControllerRow(2, NameASB, "S2", Only("UIO", BigRepeat), 1, TRUE),
           ControllerRow(3, NameController, "C1", c1, 1, FALSE)>>
  /\ server_modules = <<ModuleRow(1, "M1", Only("UIO", BigRepeat), 1)>>
  /\ accessories = <<>>
  /\ controller_selections = <<>>
  /\ Start

SpecEngine == InitEngine /\ [][Next]_vars

\* SpecServers: the servers, their names and costs, and the module vary
InitServers ==
  /\ panel_points \in PointSums(MaxEquip, PointTypes, {1})
  /\ \E n1, n2 \in {NameASP, NameASB}, k2 \in 1..MaxCost,
        c2 \in [{"AI", "UI", "UO", "UIO"} -> {0, MaxCap}] :
       controller_types =
         <<ControllerRow(1, n1, "S1", Only("UIO", MaxCap), 1, TRUE),
           ControllerRow(2, n2, "S2", [k \in CapKindSet |-> IF k \in DOMAIN c2 THEN c2[k] ELSE 0],
                         k2, TRUE),
           ControllerRow(3, NameController, "C1", Only("AI", MaxCap), 1, FALSE)>>
  /\ \E m \in {Only("UI", MaxCap), Only("UO", MaxCap), Only("UIO", MaxCap)}, k \in 0..1 :
       server_modules = <<ModuleRow(1, "M1", m, k)>>
  /\ accessories = <<AccessoryRow("S1", "A1", 1), AccessoryRow("M1", "A2", MaxCost)>>
  /\ controller_selections = <<>>
  /\ Start

SpecServers == InitServers /\ [][Next]_vars

\* SpecBoq: the controller selections of the project and the accessory
\* table vary
ControllerSelectionRow(ct, qty, srv, modules) ==
  [controller_type_id |-> ct, quantity |-> qty, is_server_selection |-> srv,
   server_modules |-> modules]

ModuleData(id, qty) == [id |-> id, quantity |-> qty]

\* The module lists a saved server solution can carry; id 9 is no module of
\* the catalog
ModuleLists ==
  {<<>>, <<ModuleData(9, 1)>>}
    \cup {<<ModuleData(1, q)>> : q \in 1..MaxQty}
    \cup {<<ModuleData(1, q), ModuleData(2, 1)>> : q \in 1..MaxQty}
    \cup {<<ModuleData(2, 1), ModuleData(1, q)>> : q \in 1..MaxQty}

\* Rows optimize_controller_selection saves: a controller at a quantity for
\* an optimized panel, a server at quantity 1 with the modules of the chosen
\* solution for a server panel (server_id 0: no such controller type)
SelectionRows ==
  {ControllerSelectionRow(c, q, FALSE, <<>>) : c \in {3, 4}, q \in 1..MaxQty}
    \cup {ControllerSelectionRow(1, 1, TRUE, m) : m \in ModuleLists}
    \cup {ControllerSelectionRow(0, 1, TRUE, <<ModuleData(1, 1)>>)}

RECURSIVE SeqsUpTo(_, _)
SeqsUpTo(S, n) ==
  IF n = 0 THEN {<<>>}
  ELSE LET prev == SeqsUpTo(S, n - 1)
       IN prev \cup {Append(q, x) : q \in {r \in prev : Len(r) = n - 1}, x \in S}

InitBoq ==
  /\ panel_points = [ZeroPoints EXCEPT !["AI"] = 1]
  /\ controller_types =
       <<ControllerRow(1, NameASP, "S1", ZeroCap, 1, TRUE),
         ControllerRow(2, NameASB, "S2", Only("UIO", MaxCap), 1, TRUE),
         ControllerRow(3, NameController, "C1", Only("AI", MaxCap), 1, FALSE),
         ControllerRow(4, NameController, "C2", Only("UI", MaxCap), 2, FALSE)>>
  /\ server_modules = <<ModuleRow(1, "M1", Only("AI", MaxCap), 1),
                        ModuleRow(2, "M2", Only("UIO", MaxCap), 2)>>
  /\ \E p2 \in {"C1", "C2", "M1"}, k2 \in 1..MaxCost :
       accessories = <<AccessoryRow("C1", "A1", 1), AccessoryRow(p2, "A1", k2),
                       AccessoryRow("M2", "A3", 1)>>
  /\ controller_selections \in SeqsUpTo(SelectionRows, MaxSel)
  /\ Start

SpecBoq == InitBoq /\ [][Next]_vars

\* SpecExamples: the catalogs of the two worked examples, with the
\* requirement, the catalog order, one cost and the accessories varying
ControllerA == ControllerRow(3, NameController, "A", [ZeroCap EXCEPT !["DI"] = 16, !["DO"] = 8],
                             100, FALSE)

ControllerB(cost) ==
  ControllerRow(4, NameController, "B",
                [ZeroCap EXCEPT !["DI"] = 32, !["DO"] = 16, !["UIO"] = 4], cost, FALSE)

ModuleAI == ModuleRow(1, "MAI", Only("AI", 8), 50)
ModuleUIO == ModuleRow(2, "MUIO", Only("UIO", 8), 40)

InitExamples ==
  /\ panel_points \in
       {[ZeroPoints EXCEPT !["DI"] = di, !["DO"] = do] : di \in 0..(27 + MaxEquip), do \in {0, 8}}
         \cup {[ZeroPoints EXCEPT !["AI"] = ai] : ai \in 0..(20 + MaxEquip)}
  /\ \E cost \in {200, 220}, first \in {"A", "B"} :
       controller_types =
         <<ControllerRow(1, NameASP, "S1", ZeroCap, 500, TRUE),
           ControllerRow(2, NameASB, "S2", Only("UIO", 4), 300, TRUE)>>
           \o (IF first = "A" THEN <<ControllerA, ControllerB(cost)>>
                ELSE <<ControllerB(cost), ControllerA>>)
  /\ server_modules \in {<<ModuleAI, ModuleUIO>>, <<ModuleUIO, ModuleAI>>}
  /\ accessories \in
       {<<>>} \cup {<<AccessoryRow("S1", "A1", k1), AccessoryRow("MAI", "A2", k2),
                       AccessoryRow("MUIO", "A3", 100)>> : k1, k2 \in 1..MaxCost}
  /\ controller_selections = <<>>
  /\ Start

SpecExamples == InitExamples /\ [][Next]_vars

\* SpecModules: two module types of the modular server, their costs and
\* the accessories vary; one device and one fixed server have no terminals
ModuleCaps ==
  {ZeroCap, Only("AI", MaxCap), Only("UO", MaxCap), Only("UIO", MaxCap + 1),
   [ZeroCap EXCEPT !["AI"] = MaxCap, !["UI"] = MaxCap]}

InitModules ==
  /\ panel_points \in PointSums(MaxEquip, {"AI", "AO", "UI"}, {1, 2})
  /\ controller_types =
       <<ControllerRow(1, NameASP, "S1", ZeroCap, 1, TRUE),
         ControllerRow(2, NameASB, "S2", ZeroCap, 1, TRUE),
         ControllerRow(3, NameController, "C1", ZeroCap, 1, FALSE),
         ControllerRow(4, NameController, "C2", Only("UIO", MaxCap), MaxCost, FALSE)>>
  /\ \E m1, m2 \in ModuleCaps, k1, k2 \in 1..MaxCost :
       server_modules = <<ModuleRow(1, "M1", m1, k1), ModuleRow(2, "M2", m2, k2)>>
  /\ \E a \in 0..MaxCost :
       accessories = <<AccessoryRow("S1", "A1", 1), AccessoryRow("M1", "A2", a),
                       AccessoryRow("M1", "A3", 1), AccessoryRow("C2", "A1", a)>>
  /\ controller_selections = <<>>
  /\ Start

SpecModules == InitModules /\ [][Next]_vars

\* SpecProjects: the panel, equipment, selection and delete handlers of a
\* user with one project, beside a project and a panel of another user; one
\* controller type with an accessory
InitProjects ==
  /\ panel_points = ZeroPoints
  /\ controller_types =
       <<ControllerRow(1, NameASP, "S1", ZeroCap, 1, TRUE),
         ControllerRow(3, NameController, "C1", Only("AI", MaxCap), 1, FALSE)>>
  /\ server_modules = <<>>
  /\ accessories = <<AccessoryRow("C1", "A1", 1)>>
  /\ controller_selections = <<>>
  /\ call = Idle
  /\ NoResults
  /\ project_owner = [p \in {1, 3} |-> Owners[p]]
  /\ equipment_templates = <<[id |-> 1, project_id |-> 3, type_key |-> "AHU"]>>
  /\ equipment_presets = <<>>
  /\ response = NoResponse
  /\ current_user = "u1"
  /\ run = NotRunning
  /\ panels = <<PanelRow(1, 3, "P1")>>
  /\ users = <<>>
  /\ session = [c \in Clients |-> 0]

SpecProjects == InitProjects /\ [][NextProjects]_vars

\* SpecCover: one controller with every mix of terminal kinds against
\* requirements of a few points
InitCover ==
  /\ panel_points \in PointSums(MaxEquip, ReqKindSet, {1})
  /\ \E c1 \in [CapKindSet -> {0, MaxCap}] :
       controller_types =
         <<ControllerRow(1, NameASP, "S1", ZeroCap, 1, TRUE),
           ControllerRow(2, NameASB, "S2", Only("UIO", MaxCap), 1, TRUE),
           ControllerRow(3, NameController, "C1", c1, 1, FALSE)>>
  /\ server_modules = <<ModuleRow(1, "M1", Only("UIO", MaxCap), 1)>>
  /\ accessories = <<>>
  /\ controller_selections = <<>>
  /\ Start

SpecCover == InitCover /\ [][Next]_vars

\* SpecAccounts: the account handlers, from the default admin, who owns a
\* project with a panel
InitAccounts ==
  /\ panel_points = ZeroPoints
  /\ controller_types = <<>>
  /\ server_modules = <<>>
  /\ accessories = <<>>
  /\ controller_selections = <<>>
  /\ call = Idle
  /\ NoResults
  /\ project_owner = [p \in {1} |-> "admin"]
  /\ equipment_templates = <<>>
  /\ equipment_presets = <<>>
  /\ response = NoResponse
  /\ current_user = "u1"
  /\ run = NotRunning
  /\ panels = <<PanelRow(1, 1, "P1")>>
  /\ users = <<UserRow(1, "admin", generate_password_hash("pw"), TRUE, TRUE)>>
  /\ session = [c \in Clients |-> 0]

SpecAccounts == InitAccounts /\ [][NextAccounts]_vars

\* SpecPresets: the template and preset handlers on an empty database
InitPresets ==
  /\ panel_points = ZeroPoints
  /\ controller_types = <<>>
  /\ server_modules = <<>>
  /\ accessories = <<>>
  /\ controller_selections = <<>>
  /\ call = Idle
  /\ NoResults
  /\ NoPresets
  /\ current_user \in {"u1", "u2"}
  /\ run = NotRunning
  /\ NoTables

SpecPresets == InitPresets /\ [][NextPresets]_vars

\* SpecLoops: the solver loops step by step
InitLoops ==
  /\ panel_points \in PointSums(MaxEquip, {"AI", "AO", "UI"}, {1, BigRepeat})
  /\ \E c1 \in [{"AI", "UO", "UIO"} -> {0, MaxCap}] :
       controller_types =
         <<ControllerRow(1, NameASP, "S1", ZeroCap, 1, TRUE),
           ControllerRow(3, NameController, "C1",
                         [k \in CapKindSet |-> IF k \in DOMAIN c1 THEN c1[k] ELSE 0], 1, FALSE),
           ControllerRow(4, NameController, "C2", Only("UIO", BigRepeat), MaxCost, FALSE)>>
  /\ \E k \in 0..1, m2 \in {Only("UO", MaxCap), Only("UIO", MaxCap)} :
       server_modules = <<ModuleRow(1, "M1", Only("AI", MaxCap), k),
                          ModuleRow(2, "M2", m2, 1)>>
  /\ accessories = <<>>
  /\ controller_selections = <<>>
  /\ Start

\* Execution is sequential: the statement a running call has reached is
\* executed, and a request is always served. The iterations of the probe
\* loop and of the while loop are scheduled whatever they compute.
Scheduled ==
  \/ BeginFind
  \/ ForController
  \/ ProbeEitherWay
  \/ BeginAsp
  \/ ForModule
  \/ WhileEitherWay
  \/ EndCall

SpecLoops == InitLoops /\ [][NextLoops]_vars /\ WF_vars(Scheduled)

\* ------------------------------------------------------------------------
\* Properties of find_optimal_controller (Spec)
\* ------------------------------------------------------------------------
Ran(fn) == call.fn = fn

\* The requirement vector handed to the solvers
Reqs == Requirements(panel_points)

\* The row of the controller a result names
RowOf(id) == GetControllerType(controller_types, id)[1]

\* Sum of the costs of the accessories whose parent is the part number
RECURSIVE AccessoryCostFrom(_, _)
AccessoryCostFrom(i, pn) ==
  IF i > Len(accessories) THEN 0
  ELSE (IF accessories[i].parent_part_number = pn THEN accessories[i].cost ELSE 0)
         + AccessoryCostFrom(i + 1, pn)

UnitCostWithAccessories(row) == row.cost + AccessoryCostFrom(1, row.part_number)

\* The quantities the solver probes for a controller: n0 .. n0 + 19
Window(controller) ==
  LET n0 == lower_bound_n(controller, Reqs)
  IN IF n0.inf THEN {} ELSE n0.n .. (n0.n + ProbeWindow - 1)

\* C1: a returned (device, n) covers the requirement, and no catalog device
\* has a feasible quantity in its probe window that costs strictly less.
C1_CheapestFeasible ==
  (Ran("find_optimal_controller") /\ best_option # <<>>) =>
     LET best == best_option[1]
     IN /\ can_cover_with_n(RowOf(best.controller_id), Reqs, best.quantity)
        /\ \A i \in 1..Len(Controllers) : \A m \in Window(Controllers[i]) :
              can_cover_with_n(Controllers[i], Reqs, m)
                => ~(UnitCostWithAccessories(Controllers[i]) * m < best.cost)

\* Both controllers can cover, and the later, cheaper one was returned
C1_Witness ==
  /\ Ran("find_optimal_controller") /\ best_option # <<>>
  /\ SumValues(Reqs) > 0
  /\ best_option[1].controller_id = Controllers[2].id
  /\ ProbeController(Controllers[1], Reqs) # <<>>
  /\ UnitCostWithAccessories(Controllers[1]) * ProbeController(Controllers[1], Reqs)[1]
       > best_option[1].cost

\* Some quantity of the controller covers the requirement.  One unit per
\* required point is enough whenever any quantity is.
CoversAtSomeQuantity(controller) ==
  \E n \in 1..Max(1, SumValues(Reqs)) : can_cover_with_n(controller, Reqs, n)

\* C7 as stated: if some controller covers at some quantity n >= 1, a pair
\* is returned.
C7_NoneOnlyIfNeverFeasible ==
  (Ran("find_optimal_controller")
     /\ \E i \in 1..Len(Controllers) : CoversAtSomeQuantity(Controllers[i]))
    => best_option # <<>>

\* C7 amended: if some controller covers at a quantity inside its probe
\* window n0 .. n0+19, a pair is returned.
C7_NoneOnlyIfNoneInWindow ==
  (Ran("find_optimal_controller")
     /\ \E i \in 1..Len(Controllers) : \E m \in Window(Controllers[i]) :
           can_cover_with_n(Controllers[i], Reqs, m))
    => best_option # <<>>

\* The first controller cannot serve the requirement, the second can, and
\* the second is returned
C7_Witness ==
  /\ Ran("find_optimal_controller") /\ best_option # <<>>
  /\ SumValues(Reqs) > 0
  /\ ~CoversAtSomeQuantity(Controllers[1])
  /\ best_option[1].controller_id = Controllers[2].id

\* C10: the cost of the returned candidate is (unit cost + the costs of all
\* accessories of the device's part number) x quantity.
C10_AccessoriesPerUnit ==
  (Ran("find_optimal_controller") /\ best_option # <<>>) =>
     LET best == best_option[1]
     IN best.cost = UnitCostWithAccessories(RowOf(best.controller_id)) * best.quantity

\* A device with two accessories is returned at a quantity of at least two
C10_Witness ==
  /\ Ran("find_optimal_controller") /\ best_option # <<>>
  /\ best_option[1].quantity >= 2
  /\ \A i \in 1..Len(accessories) :
        accessories[i].parent_part_number = RowOf(best_option[1].controller_id).part_number
  /\ best_option[1].cost
       = (1 + 1 + MaxCost) * best_option[1].quantity

\* ------------------------------------------------------------------------
\* Properties of can_cover_with_n (SpecEngine)
\* ------------------------------------------------------------------------
\* Quantities around every point count the panel can have
ProbeQuantities ==
  (1..(MaxProbe + 1)) \cup ((BigRepeat - 1)..(BigRepeat + 2))
    \cup ((2 * BigRepeat - 1)..(2 * BigRepeat + 2))

\* C6: if n units of a controller cover the requirement, so do n' > n units.
C6_MonotoneInQuantity ==
  Ran("find_optimal_controller") => \A i \in 1..Len(Controllers) :
     LET covered == {n \in ProbeQuantities : can_cover_with_n(Controllers[i], Reqs, n)}
     IN \A n \in covered : \A n2 \in ProbeQuantities : n2 > n => n2 \in covered

\* The solver accepted two units of a controller with several kinds of
\* terminals: one unit does not cover, two and three do
C6_Witness ==
  /\ Ran("find_optimal_controller") /\ best_option # <<>>
  /\ best_option[1].quantity = 2
  /\ LET controller == RowOf(best_option[1].controller_id)
     IN /\ controller.ui_capacity > 0 /\ controller.uio_capacity > 0
        /\ ~can_cover_with_n(controller, Reqs, 1)
        /\ can_cover_with_n(controller, Reqs, 2)
        /\ can_cover_with_n(controller, Reqs, 3)

\* What is left of need after a pool of size pool has served it, and what is
\* left of the pool
LeftOfNeed(need, pool) == Max(0, need - pool)
LeftOfPool(need, pool) == Max(0, pool - need)

\* The residual of the four-step order, written out step by step.  With
\* ui_dedicated the UI terminals serve the UI points in step 1 and only
\* what they leave goes to AI and DI in step 2; without it step 1 covers
\* AI, AO, DI, DO only.
FourStepResidual(controller, reqs, n, ui_dedicated) ==
  LET unit == CapOf(controller)
      cap == [k \in CapKindSet |-> unit[k] * n]
      ai1 == LeftOfNeed(reqs["AI"], cap["AI"])
      ao1 == LeftOfNeed(reqs["AO"], cap["AO"])
      di1 == LeftOfNeed(reqs["DI"], cap["DI"])
      do1 == LeftOfNeed(reqs["DO"], cap["DO"])
      ui1 == IF ui_dedicated THEN LeftOfNeed(reqs["UI"], cap["UI"]) ELSE reqs["UI"]
      ui_pool == IF ui_dedicated THEN LeftOfPool(reqs["UI"], cap["UI"]) ELSE cap["UI"]
      ai2 == LeftOfNeed(ai1, ui_pool)
      di2 == LeftOfNeed(di1, LeftOfPool(ai1, ui_pool))
      ao2 == LeftOfNeed(ao1, cap["UO"])
      do2 == LeftOfNeed(do1, LeftOfPool(ao1, cap["UO"]))
      p1 == LeftOfPool(ai2, cap["UIO"])
      p2 == LeftOfPool(ao2, p1)
      p3 == LeftOfPool(di2, p2)
      p4 == LeftOfPool(do2, p3)
  IN [pt \in ReqKindSet |->
        CASE pt = "AI" -> LeftOfNeed(ai2, cap["UIO"])
          [] pt = "AO" -> LeftOfNeed(ao2, p1)
          [] pt = "DI" -> LeftOfNeed(di2, p2)
          [] pt = "DO" -> LeftOfNeed(do2, p3)
          [] pt = "UI" -> LeftOfNeed(ui1, p4)]

\* C13 as stated: can_cover_with_n is true exactly when the residual of the
\* order (1) dedicated AI/AO/DI/DO, (2) UI to AI then DI, (3) UO to AO then
\* DO, (4) UIO to AI, AO, DI, DO, UI is all zero.
C13_FourStepOrderAsStated ==
  Ran("find_optimal_controller") => \A i \in 1..Len(Controllers) : \A n \in ProbeQuantities :
     can_cover_with_n(Controllers[i], Reqs, n)
       <=> SumValues(FourStepResidual(Controllers[i], Reqs, n, FALSE)) = 0

\* C13 amended: step (1) also subtracts the UI capacity x n from the UI
\* requirement, and step (2) applies what is left of the UI capacity.
C13_FourStepOrderWithUI ==
  Ran("find_optimal_controller") => \A i \in 1..Len(Controllers) : \A n \in ProbeQuantities :
     can_cover_with_n(Controllers[i], Reqs, n)
       <=> SumValues(FourStepResidual(Controllers[i], Reqs, n, TRUE)) = 0

\* The accepted quantity covers UI points with UI terminals and outputs
\* with UO terminals
C13_Witness ==
  /\ Ran("find_optimal_controller") /\ best_option # <<>>
  /\ Reqs["UI"] > 0 /\ Reqs["DO"] > 0
  /\ LET controller == RowOf(best_option[1].controller_id)
     IN /\ controller.ui_capacity > 0 /\ controller.uo_capacity > 0
        /\ controller.uio_capacity = 0 /\ controller.do_capacity = 0
        /\ SumValues(FourStepResidual(controller, Reqs, best_option[1].quantity, TRUE)) = 0
        /\ SumValues(FourStepResidual(controller, Reqs, best_option[1].quantity, FALSE)) > 0

\* C20: for each device the lower bound n0 is no greater than the smallest
\* quantity that covers (a device whose bound is infinite is covered by no
\* quantity), and the quantity the search accepts is the smallest one: no
\* quantity from 1 up to one less than the accepted quantity covers.
C20_FirstAcceptedIsMinimum ==
  Ran("find_optimal_controller") => \A i \in 1..Len(Controllers) :
     LET controller == Controllers[i]
         n0 == lower_bound_n(controller, Reqs)
         hit == ProbeController(controller, Reqs)
         below == IF hit # <<>> THEN 1..(hit[1] - 1)
                  ELSE IF n0.inf THEN ProbeQuantities
                  ELSE 1..(n0.n - 1)
     IN /\ \A n \in below : ~can_cover_with_n(controller, Reqs, n)
        /\ hit # <<>> => ~n0.inf /\ n0.n <= hit[1]
        /\ (best_option # <<>> /\ best_option[1].controller_id = controller.id) =>
              hit = <<best_option[1].quantity>>

\* The search started at a bound of two or more units, found it too small
\* and accepted a larger quantity
C20_Witness ==
  /\ Ran("find_optimal_controller") /\ best_option # <<>>
  /\ LET controller == RowOf(best_option[1].controller_id)
         n0 == lower_bound_n(controller, Reqs)
     IN /\ ~n0.inf /\ n0.n >= 2
        /\ best_option[1].quantity > n0.n
        /\ ~can_cover_with_n(controller, Reqs, n0.n)
        /\ can_cover_with_n(controller, Reqs, best_option[1].quantity)

\* ------------------------------------------------------------------------
\* Properties of the server solvers (SpecServers)
\* ------------------------------------------------------------------------
\* ServerModule row with the part number
ModuleOf(pn) == SelectSeq(server_modules, LAMBDA m : m.part_number = pn)[1]

\* Capacity of kind k summed over the listed modules, each at its quantity
RECURSIVE ListedCapacity(_, _)
ListedCapacity(modules, k) ==
  IF modules = <<>> THEN 0
  ELSE Head(modules).quantity * CapOf(ModuleOf(Head(modules).part_number))[k]
         + ListedCapacity(Tail(modules), k)

\* The listed modules as one device
ListedModules(solution) ==
  ControllerRow(0, <<>>, "", [k \in CapKindSet |-> ListedCapacity(solution.modules, k)],
                0, FALSE)

\* C2: the modules of a returned AS-P solution cover the requirement under
\* the allocation priority dedicated, UI to AI/DI, UO to AO/DO, UIO to any.
C2_AspSolutionCovers ==
  (Ran("generate_asp_solution") /\ asp_solution # <<>>)
    => can_cover_with_n(ListedModules(asp_solution[1]), Reqs, 1)

\* The server generate_asb_solution was called with
CalledServer == RowOf(call.server)

\* Points of kind k the server's own terminals of that kind leave uncovered
Deficit(server, k) == Max(0, Reqs[k] - CapOf(server)[k])

TotalDeficit(server) ==
  Deficit(server, "AI") + Deficit(server, "AO") + Deficit(server, "DI")
    + Deficit(server, "DO") + Deficit(server, "UI")

AsbCostAndModules ==
  asb_solution # <<>> =>
     /\ asb_solution[1].total_cost = UnitCostWithAccessories(CalledServer)
     /\ asb_solution[1].modules = <<>>

\* C3 as stated: a solution is returned exactly when the allocation engine
\* at n=1 on the server's capacity vector reports full coverage; its cost is
\* server cost plus accessories and its module list is empty.
C3_AsbIffEngineCovers ==
  Ran("generate_asb_solution") =>
     /\ asb_solution # <<>> <=> can_cover_with_n(CalledServer, Reqs, 1)
     /\ AsbCostAndModules

\* C3 amended: a solution is returned exactly when the points left over by
\* the server's dedicated terminals of each kind (UI terminals serving UI
\* points only, UO terminals unused) fit into its UIO pool; then the engine
\* at n=1 also covers, and the two agree on servers without UI and UO.
C3_AsbIffDeficitFitsUIO ==
  Ran("generate_asb_solution") =>
     /\ asb_solution # <<>> <=> TotalDeficit(CalledServer) <= CalledServer.uio_capacity
     /\ asb_solution # <<>> => can_cover_with_n(CalledServer, Reqs, 1)
     /\ (CalledServer.ui_capacity = 0 /\ CalledServer.uo_capacity = 0)
          => (asb_solution # <<>> <=> can_cover_with_n(CalledServer, Reqs, 1))
     /\ AsbCostAndModules

\* A server with dedicated and UIO terminals covers two kinds of points,
\* one of them through the UIO pool
C3_Witness ==
  /\ Ran("generate_asb_solution") /\ asb_solution # <<>>
  /\ CalledServer.ai_capacity > 0 /\ CalledServer.uio_capacity > 0
  /\ Reqs["AI"] > 0 /\ TotalDeficit(CalledServer) > 0

\* The solution of the list for a server, if any
HasEntry(type, id) ==
  \E i \in 1..Len(solutions) : solutions[i].type = type /\ solutions[i].server_id = id

AspFeasible(server) ==
  /\ ~AspRaises(server_modules)
  /\ generate_asp_solution(accessories, server, Reqs, server_modules) # <<>>

AsbFeasible(server) == generate_asb_solution(accessories, server, Reqs) # <<>>

C5_SortedByCost ==
  Ran("generate_optimal_server_solutions") =>
     \A i \in 1..(Len(solutions) - 1) :
        solutions[i].total_cost <= solutions[i + 1].total_cost

\* The AS-B solution, generated second, is cheaper and comes first
C5_Witness ==
  /\ Ran("generate_optimal_server_solutions")
  /\ SumValues(Reqs) > 0
  /\ Len(solutions) = 2
  /\ solutions[1].type = "AS-B" /\ solutions[2].type = "AS-P"
  /\ solutions[1].total_cost < solutions[2].total_cost

\* C8: a panel whose requirement vector is all zero gets no controller from
\* the single-device path and no entry in its server solution list.
C8_ZeroRequirementEmpty ==
  SumValues(Reqs) = 0 =>
     /\ Ran("run_controller_optimization") => optimization_result = <<>>
     /\ Ran("get_controller_selection_data") =>
           \A i \in 1..Len(server_solutions) : server_solutions[i] = <<>>

\* Some multiset of catalog modules can serve every kind that is required
ModulesCanCover ==
  \A pt \in ReqKindSet :
     Reqs[pt] > 0 => \E i \in 1..Len(server_modules) : EffCap(server_modules[i])[pt] > 0

\* No controller within its window, no module set, no fixed server covers
Infeasible ==
  /\ \A i \in 1..Len(Controllers) : \A m \in Window(Controllers[i]) :
        ~can_cover_with_n(Controllers[i], Reqs, m)
  /\ ~ModulesCanCover
  /\ \A i \in 1..Len(ServersASB) : ~can_cover_with_n(ServersASB[i], Reqs, 1)

\* C9: an infeasible requirement makes every solver return None and the
\* list empty, and no exception escapes.
C9_InfeasibleIsAValue ==
  Infeasible =>
     /\ error = ""
     /\ Ran("find_optimal_controller") => best_option = <<>>
     /\ Ran("generate_asp_solution") => asp_solution = <<>>
     /\ Ran("generate_asb_solution") => asb_solution = <<>>
     /\ Ran("generate_optimal_server_solutions") => solutions = <<>>

C15_TwoUnitsOfA ==
  (/\ Ran("find_optimal_controller")
   /\ panel_points = [ZeroPoints EXCEPT !["DI"] = 27, !["DO"] = 8]
   /\ RowOf(4) = ControllerB(220))
    => best_option = <<[controller_id |-> ControllerA.id, quantity |-> 2, cost |-> 200]>>

\* The example is solved with B first in the catalog
C15_Witness ==
  /\ Ran("find_optimal_controller") /\ best_option # <<>>
  /\ panel_points = [ZeroPoints EXCEPT !["DI"] = 27, !["DO"] = 8]
  /\ Controllers = <<ControllerB(220), ControllerA>>
  /\ best_option[1].quantity = 2

\* C16: for {AI:20} and the modules {AI:8} at 50 and {UIO:8} at 40, in
\* either catalog order, the AI module is tried first and the solution is
\* exactly 3 AI modules, at server cost + server accessories
\* + 3 x (50 + the AI module's accessories).
C16_ThreeAIModules ==
  (Ran("generate_asp_solution") /\ panel_points = [ZeroPoints EXCEPT !["AI"] = 20]) =>
     /\ sorted_modules(server_modules)[1] = ModuleAI
     /\ asp_solution # <<>>
     /\ asp_solution[1].modules =
          <<[id |-> ModuleAI.id, part_number |-> "MAI", quantity |-> 3, cost |-> 50]>>
     /\ asp_solution[1].total_cost =
          UnitCostWithAccessories(CalledServer) + 3 * (50 + AccessoryCostFrom(1, "MAI"))

\* The example is solved with accessories on the server and on the AI
\* module, the UIO module first in the catalog
C16_Witness ==
  /\ Ran("generate_asp_solution") /\ asp_solution # <<>>
  /\ panel_points = [ZeroPoints EXCEPT !["AI"] = 20]
  /\ server_modules[1] = ModuleUIO
  /\ AccessoryCostFrom(1, "MAI") > 0 /\ AccessoryCostFrom(1, "S1") > 0
  /\ asp_solution[1].total_cost > 500 + 150

\* A module can serve the kind: AI by AI, UI or UIO capacity, DI by DI, UI or
\* UIO, AO by AO, UO or UIO, DO by DO, UO or UIO, UI by UI or UIO
CanServe(module, pt) == EffCap(module)[pt] > 0

EveryKindServable ==
  \A pt \in ReqKindSet :
     Reqs[pt] > 0 => \E i \in 1..Len(server_modules) : CanServe(server_modules[i], pt)

\* C18: whenever the catalog has an AS-P server and every required kind can
\* be served by some module of the catalog, the list of server solutions
\* contains an AS-P solution.
C18_AspWheneverServable ==
  (/\ Ran("generate_optimal_server_solutions")
   /\ ServersASP # <<>>
   /\ EveryKindServable)
    => \E i \in 1..Len(solutions) : solutions[i].type = "AS-P"

\* ------------------------------------------------------------------------
\* Properties of the solver loops (SpecLoops)
\* ------------------------------------------------------------------------
\* The step-by-step loops end with the results of the solver functions
LoopsAgree ==
  run.pc = "done" =>
     IF run.fn = "find_optimal_controller"
     THEN run.best = find_optimal_controller(controller_types, accessories, Reqs, Controllers)
     ELSE run.raised
          \/ (SumValues(run.rem) = 0)
               = (generate_asp_solution(accessories, ServersASP[1], Reqs, server_modules) # <<>>)

\* C19: every started call of find_optimal_controller or generate_asp_solution
\* comes to its end; for each device at most 20 quantities are probed, all
\* of them from n0 to n0+19; every module unit the greedy loop keeps leaves
\* the sum of the residual strictly smaller than it was.
C19_SolversTerminate ==
  /\ [](run.pc # "idle" => <>(run.pc = "done"))
  /\ [](run.probes <= ProbeWindow)
  /\ [][run'.probes = run.probes + 1 =>
          LET n0 == lower_bound_n(Controllers[run.i], Reqs).n
          IN run.n \in n0..(n0 + ProbeWindow - 1)]_vars
  /\ [][run'.units = run.units + 1 =>
          SumValues(run'.rem) < SumValues(run.rem) /\ SumValues(run'.rem) >= 0]_vars

\* generate_asp_solution came to its end with module units of both kinds
\* attached and nothing left of the requirement
C19_Witness ==
  /\ run.pc = "done" /\ run.fn = "generate_asp_solution" /\ ~run.raised
  /\ run.units > BigRepeat
  /\ run.i = 2
  /\ SumValues(run.rem) = 0

\* What one unit of the module takes off each kind of the residual
Reduction(module, rem) == [pt \in ReqKindSet |-> rem[pt] - AfterModule(module, rem)[pt]]

AllTerminals(module) == TotalPoints(module) + module.uo_capacity

\* C21: at a greedy step of generate_asp_solution the AO and DO residuals go
\* down by no more than the unit's AO, DO, UO and UIO terminals (UI terminals
\* serve inputs only), UO terminals serve AO and DO residuals, and the whole
\* residual goes down by no more than the unit has terminals.
C21_FungibilityRespected ==
  Ran("generate_asp_solution") => \A i \in 1..Len(server_modules) :
     LET module == server_modules[i]
         taken == Reduction(module, Reqs)
     IN /\ (~AspRaises(server_modules) /\ TotalPoints(module) > 0 /\ Helps(module, Reqs)) =>
             /\ taken["AO"] + taken["DO"]
                  <= module.ao_capacity + module.do_capacity
                       + module.uo_capacity + module.uio_capacity
             /\ SumValues(taken) <= AllTerminals(module)
        /\ (module.uo_capacity > 0 /\ Reqs["AO"] + Reqs["DO"] > 0) =>
             /\ asp_solution # <<>>
             /\ taken["AO"] + taken["DO"] > 0

\* ------------------------------------------------------------------------
\* Properties of the modular solver over two module types (SpecModules)
\* ------------------------------------------------------------------------
\* The units the greedy loop kept, in the order it kept them
KeptUnits ==
  GreedyLoop(accessories, sorted_modules(server_modules),
             [rem |-> Reqs, required_modules |-> <<>>, total_cost |-> 0]).required_modules

UnitsOf(units, pn) == Cardinality({i \in 1..Len(units) : units[i].part_number = pn})

RECURSIVE ListedCost(_)
ListedCost(modules) ==
  IF modules = <<>> THEN 0
  ELSE Head(modules).quantity
         * (Head(modules).cost + AccessoryCostFrom(1, Head(modules).part_number))
       + ListedCost(Tail(modules))

RECURSIVE ListedQuantity(_)
ListedQuantity(modules) ==
  IF modules = <<>> THEN 0 ELSE Head(modules).quantity + ListedQuantity(Tail(modules))

\* C22: a returned AS-P solution costs the server with its accessories plus,
\* for every listed module, quantity x (module cost + its accessories); the
\* listed part numbers are pairwise distinct, each with the number of units
\* kept as quantity; every listed unit took something off the residual, so
\* no more units are listed than points are required.
C22_AspCostAndModules ==
  (Ran("generate_asp_solution") /\ asp_solution # <<>>) =>
     LET modules == asp_solution[1].modules
     IN /\ asp_solution[1].total_cost
             = UnitCostWithAccessories(CalledServer) + ListedCost(modules)
        /\ \A i, j \in 1..Len(modules) :
              i # j => modules[i].part_number # modules[j].part_number
        /\ \A i \in 1..Len(modules) :
              /\ modules[i].quantity = UnitsOf(KeptUnits, modules[i].part_number)
              /\ modules[i].quantity >= 1
              /\ \E k \in 1..Len(server_modules) :
                    /\ server_modules[k].part_number = modules[i].part_number
                    /\ server_modules[k].cost = modules[i].cost
        /\ \A k \in 1..Len(KeptUnits) :
              \E i \in 1..Len(modules) : modules[i].part_number = KeptUnits[k].part_number
        /\ ListedQuantity(modules) <= SumValues(Reqs)

\* A solution with both module types, several units of one of them, and
\* accessories on the server and on a module
C22_Witness ==
  /\ Ran("generate_asp_solution") /\ asp_solution # <<>>
  /\ Len(asp_solution[1].modules) = 2
  /\ \E i \in 1..2 :
        /\ asp_solution[1].modules[i].quantity >= 2
        /\ asp_solution[1].modules[i].part_number = "M1"
  /\ AccessoryCostFrom(1, "M1") > 1

\* C23: the modular solver tries every module that has a terminal of any of
\* the seven kinds, in descending order of 0.7 x dedicated / total
\* + 0.3 x total / cost with the total taken over the seven kinds, and
\* modules of equal score in catalog order.
C23_ModulesTriedByScore ==
  (Ran("generate_asp_solution") /\ ~AspRaises(server_modules)) =>
     LET tried == sorted_modules(server_modules)
         Num(m) == 7 * DedicatedPoints(m) * m.cost + 3 * AllTerminals(m) * AllTerminals(m)
         Den(m) == 10 * AllTerminals(m) * m.cost
         Place(m) == CHOOSE i \in 1..Len(server_modules) : server_modules[i] = m
     IN /\ \A i \in 1..Len(server_modules) :
              AllTerminals(server_modules[i]) > 0 =>
                 \E k \in 1..Len(tried) : tried[k] = server_modules[i]
        /\ \A k, l \in 1..Len(tried) :
              k < l =>
                 /\ Num(tried[k]) * Den(tried[l]) >= Num(tried[l]) * Den(tried[k])
                 /\ Num(tried[k]) * Den(tried[l]) = Num(tried[l]) * Den(tried[k])
                      => Place(tried[k]) < Place(tried[l])

\* C24: a catalog entry without any terminal is in no result: the device
\* find_optimal_controller returns, the server generate_asb_solution
\* returns and every module generate_asp_solution lists has a nonzero
\* capacity of some kind.
C24_ZeroCapacityNeverReturned ==
  /\ (Ran("find_optimal_controller") /\ best_option # <<>>) =>
        AllTerminals(RowOf(best_option[1].controller_id)) > 0
  /\ (Ran("generate_asb_solution") /\ asb_solution # <<>>) =>
        AllTerminals(RowOf(asb_solution[1].server_id)) > 0
  /\ (Ran("generate_asp_solution") /\ asp_solution # <<>>) =>
        \A i \in 1..Len(asp_solution[1].modules) :
           \E k \in 1..Len(server_modules) :
              /\ server_modules[k].part_number = asp_solution[1].modules[i].part_number
              /\ AllTerminals(server_modules[k]) > 0

\* ------------------------------------------------------------------------
\* Line totals of the bill of quantities (SpecBoq)
\* ------------------------------------------------------------------------
RECURSIVE LinesTotal(_)
LinesTotal(lines) ==
  IF lines = <<>> THEN 0 ELSE Head(lines).total_cost + LinesTotal(Tail(lines))

\* C27: every line of the BOQ has total_cost = quantity x unit_cost, and
\* total_controller_cost is the sum of total_cost over the controller,
\* module and accessory lines, also when an accessory part number is
\* attached to several parents.
C27_BoqLinesAddUp ==
  Ran("generate_controller_boq") =>
     LET all_controller_items ==
           boq[1].controller_boq \o boq[1].module_boq \o boq[1].accessory_boq
     IN /\ \A i \in 1..Len(all_controller_items) :
              all_controller_items[i].total_cost
                = all_controller_items[i].quantity * all_controller_items[i].unit_cost
        /\ boq[1].total_controller_cost = LinesTotal(all_controller_items)

\* ------------------------------------------------------------------------
\* Exactness of the allocation order (SpecCover)
\* ------------------------------------------------------------------------
\* The kinds of terminal a point of the type can be wired to
Compatible(pt) ==
  CASE pt = "AI" -> {"AI", "UI", "UIO"}
    [] pt = "DI" -> {"DI", "UI", "UIO"}
    [] pt = "AO" -> {"AO", "UO", "UIO"}
    [] pt = "DO" -> {"DO", "UO", "UIO"}
    [] pt = "UI" -> {"UI", "UIO"}

RECURSIVE SumOver(_, _)
SumOver(f, S) ==
  IF S = {} THEN 0
  ELSE LET k == CHOOSE x \in S : TRUE IN f[k] + SumOver(f, S \ {k})

\* The ways to wire need points of the type: how many go to each kind of
\* terminal, none to a kind that is not compatible
Wirings(pt, need) ==
  {w \in [CapKindSet -> 0..need] :
     /\ \A k \in CapKindSet \ Compatible(pt) : w[k] = 0
     /\ SumOver(w, CapKindSet) = need}

\* Some wiring gives every required point a terminal of its own among n
\* units of the controller
Assignable(controller, reqs, n) ==
  \E ai \in Wirings("AI", reqs["AI"]), ao \in Wirings("AO", reqs["AO"]),
     di \in Wirings("DI", reqs["DI"]), do \in Wirings("DO", reqs["DO"]),
     ui \in Wirings("UI", reqs["UI"]) :
     \A k \in CapKindSet :
        ai[k] + ao[k] + di[k] + do[k] + ui[k] <= CapOf(controller)[k] * n

\* C26: can_cover_with_n reports feasible exactly when some assignment gives
\* every required point its own terminal of a compatible kind out of n
\* units, and never when the requirement exceeds n x the terminals of a unit.
C26_AllocationOrderIsExact ==
  Ran("find_optimal_controller") => \A i \in 1..Len(Controllers) : \A n \in 1..MaxProbe :
     /\ can_cover_with_n(Controllers[i], Reqs, n) <=> Assignable(Controllers[i], Reqs, n)
     /\ can_cover_with_n(Controllers[i], Reqs, n)
          => SumValues(Reqs) <= n * AllTerminals(Controllers[i])

\* One unit was accepted for points of two types that compete for its
\* universal terminals
C26_Witness ==
  /\ Ran("find_optimal_controller") /\ best_option # <<>>
  /\ best_option[1].quantity = 1
  /\ Reqs["AI"] > 0 /\ Reqs["UI"] > 0
  /\ LET controller == RowOf(best_option[1].controller_id)
     IN /\ controller.ai_capacity = 0
        /\ controller.ui_capacity > 0 /\ controller.uio_capacity > 0
        /\ Assignable(controller, Reqs, 1)

\* ------------------------------------------------------------------------
\* Properties of the stored selections (SpecProjects)
\* ------------------------------------------------------------------------
\* C25: every auto-optimized ControllerSelection stored with quantity q has
\* total_cost = q x (unit cost of the controller + the costs of its
\* accessories), the total the solver computed for the candidate.
C25_StoredCostIsSolverCost ==
  \A i \in 1..Len(controller_selections) :
     LET selection == controller_selections[i]
     IN selection.is_auto_optimized =>
          selection.total_cost
            = selection.quantity
                * UnitCostWithAccessories(RowOf(selection.controller_type_id))

\* C28: every stored ControllerSelection names a panel that exists and is
\* of the selection's project, and no two selections of a project name the
\* same panel.
C28_SelectionsNameOwnPanels ==
  /\ \A i \in 1..Len(controller_selections) :
        \E k \in 1..Len(panels) :
           /\ panels[k].id = controller_selections[i].panel_id
           /\ panels[k].project_id = controller_selections[i].project_id
  /\ \A i, j \in 1..Len(controller_selections) :
        (/\ i # j
         /\ controller_selections[i].project_id = controller_selections[j].project_id)
           => controller_selections[i].panel_id # controller_selections[j].panel_id

\* ------------------------------------------------------------------------
\* Properties of the account handlers (SpecAccounts)
\* ------------------------------------------------------------------------
\* The request the last response answers
Request == response.data[1]

\* The row was in the table before the step
SameUser(before, after) == before.id = after.id /\ before.username = after.username

\* C29: a user created by register starts unapproved; is_approved of a user
\* becomes true only by approve_user run by an admin for that user; a
\* session comes to hold a user only by a login of a user who is approved;
\* and a login with the right password for an unapproved user is answered
\* 401 and changes no session.
C29_ApprovalGatesLogin ==
  [][
      /\ \A i \in 1..Len(users') :
          (users' # users /\ \A j \in 1..Len(users) : ~SameUser(users[j], users'[i])) =>
             /\ response'.handler = "register"
             /\ ~users'[i].is_approved
      /\ \A j \in 1..Len(users) : \A i \in 1..Len(users') :
          (/\ users' # users
           /\ SameUser(users[j], users'[i])
           /\ ~users[j].is_approved /\ users'[i].is_approved) =>
             /\ response'.handler = "approve_user"
             /\ Request'.target = users[j].id
             /\ CurrentUser(Request'.client) # <<>>
             /\ CurrentUser(Request'.client)[1].is_admin
      /\ \A c \in Clients :
          (session'[c] # session[c] /\ session'[c] # 0) =>
             /\ response'.handler = "login"
             /\ GetUser(session'[c]) # <<>>
             /\ GetUser(session'[c])[1].is_approved
      /\ (/\ response'.handler = "login"
          /\ CurrentUser(Request'.client) = <<>>
          /\ UserNamed(Request'.target[1]) # <<>>
          /\ check_password_hash(UserNamed(Request'.target[1])[1].password,
                                  Request'.target[2])
          /\ ~UserNamed(Request'.target[1])[1].is_approved) =>
             /\ response'.status = 401
             /\ session' = session
    ]_vars

\* The user who registered has logged in
C29_Witness ==
  /\ response.handler = "login" /\ response.status = 200
  /\ Request.target[1] = "u2"
  /\ CurrentUser(Request.client) # <<>>
  /\ CurrentUser(Request.client)[1].username = "u2"

\* C30: some user is an admin in every state, and a toggle_user_admin or
\* delete_user request of an admin for their own id changes no user.
C30_AlwaysAnAdmin ==
  /\ [](\E i \in 1..Len(users) : users[i].is_admin)
  /\ [][(/\ response'.handler \in {"toggle_user_admin", "delete_user"}
         /\ CurrentUser(Request'.client) # <<>>
         /\ CurrentUser(Request'.client)[1].is_admin
         /\ Request'.target = CurrentUser(Request'.client)[1].id) =>
            users' = users
      ]_vars

\* The default admin lost the admin status to an admin they had made, who
\* is the only admin left
C30_Witness ==
  /\ response.handler = "toggle_user_admin" /\ Request.outcome = "toggled"
  /\ UserNamed("admin") # <<>> /\ ~UserNamed("admin")[1].is_admin
  /\ Cardinality({i \in 1..Len(users) : users[i].is_admin}) = 1

\* ------------------------------------------------------------------------
\* Properties of the preset handlers (SpecPresets)
\* ------------------------------------------------------------------------
\* C17: a create_equipment_preset request by the owner of project B, with
\* all required fields, a preset name not yet used in B and the id of a
\* template created in another project A, gets status 201 and the preset is
\* stored in project B.
C17_TemplatesAreGlobal ==
  [][(/\ response'.handler = "create_equipment_preset"
      /\ response' # response
      /\ response'.project_id \in DOMAIN project_owner
      /\ project_owner[response'.project_id] = current_user
      /\ LET data == response'.data[1]
         IN /\ PresetFields \subseteq data.fields
            /\ \E i \in 1..Len(equipment_templates) :
                  /\ equipment_templates[i].id = data.equipment_template_id
                  /\ equipment_templates[i].project_id # response'.project_id
            /\ \A i \in 1..Len(equipment_presets) :
                  ~(/\ equipment_presets[i].project_id = response'.project_id
                    /\ equipment_presets[i].name = data.name)
            /\ Len(equipment_presets) < MaxPresets)
       => /\ response'.status = 201
          /\ equipment_presets' =
               Append(equipment_presets,
                      [project_id |-> response'.project_id,
                       name |-> response'.data[1].name,
                       equipment_template_id |-> response'.data[1].equipment_template_id])]_vars

\* ------------------------------------------------------------------------
\* Properties of generate_controller_boq (SpecBoq)
\* ------------------------------------------------------------------------
Reverse(q) == [i \in 1..Len(q) |-> q[Len(q) + 1 - i]]

\* The selections in the order p, their module lists reversed when rm
Reordered(p, rm) ==
  [i \in 1..Len(controller_selections) |->
     LET selection == controller_selections[p[i]]
     IN IF rm THEN [selection EXCEPT !.server_modules = Reverse(@)] ELSE selection]

Entries(boq_dict) == {boq_dict[i] : i \in 1..Len(boq_dict)}

\* Same quantity, unit cost and total cost for every part number, and the
\* same total
SameBoq(a, b) ==
  /\ Entries(a.controller_boq) = Entries(b.controller_boq)
  /\ Entries(a.module_boq) = Entries(b.module_boq)
  /\ Entries(a.accessory_boq) = Entries(b.accessory_boq)
  /\ a.total_controller_cost = b.total_controller_cost

\* C11: the BOQ is the same whatever the order in which the selections, the
\* modules inside them and the accessories of a parent are folded.
C11_BoqOrderIndependent ==
  Ran("generate_controller_boq") =>
     \A p \in Permutations(1..Len(controller_selections)) : \A rm, ra \in BOOLEAN :
        SameBoq(boq[1],
                generate_controller_boq(controller_types, server_modules,
                                        IF ra THEN Reverse(accessories) ELSE accessories,
                                        Reordered(p, rm)))

\* Part number of the controller type a selection names, "" when none
SelectedController(selection) ==
  LET found == GetControllerType(controller_types, selection.controller_type_id)
  IN IF found = <<>> THEN "" ELSE found[1].part_number

\* Units of the part number pn that module_data[j..] of a selection lists
RECURSIVE ModuleUnits(_, _, _)
ModuleUnits(modules, j, pn) ==
  IF j > Len(modules) THEN 0
  ELSE (IF \E i \in 1..Len(server_modules) :
              /\ server_modules[i].id = modules[j].id
              /\ server_modules[i].part_number = pn
        THEN modules[j].quantity ELSE 0)
         + ModuleUnits(modules, j + 1, pn)

\* Units of the part number pn selected by selections i.., as a controller
\* or as a module of a server selection
RECURSIVE SelectedUnits(_, _)
SelectedUnits(i, pn) ==
  IF i > Len(controller_selections) THEN 0
  ELSE LET selection == controller_selections[i]
       IN (IF SelectedController(selection) = pn THEN selection.quantity ELSE 0)
            + (IF selection.is_server_selection
               THEN ModuleUnits(selection.server_modules, 1, pn) ELSE 0)
            + SelectedUnits(i + 1, pn)

\* The parent part number occurs in some selection
IsSelected(pn) ==
  \E i \in 1..Len(controller_selections) :
     LET selection == controller_selections[i]
     IN \/ SelectedController(selection) = pn
        \/ /\ selection.is_server_selection
           /\ \E j \in 1..Len(selection.server_modules), k \in 1..Len(server_modules) :
                 /\ server_modules[k].id = selection.server_modules[j].id
                 /\ server_modules[k].part_number = pn

\* Units owed for the accessory part number: per accessory row, the
\* selected units of the row's parent
RECURSIVE AccessoryUnits(_, _)
AccessoryUnits(r, acc_pn) ==
  IF r > Len(accessories) THEN 0
  ELSE (IF accessories[r].part_number = acc_pn
        THEN SelectedUnits(1, accessories[r].parent_part_number) ELSE 0)
         + AccessoryUnits(r + 1, acc_pn)

AccessoryPartNumbers == {accessories[r].part_number : r \in 1..Len(accessories)}

\* C12: for each accessory part number the BOQ quantity is the sum, over
\* the accessory rows of that part number and over all selections, of the
\* selected quantity of the row's parent (controller or server module); an
\* accessory none of whose parents is selected has no BOQ line.
C12_AccessoryOncePerUnit ==
  Ran("generate_controller_boq") =>
     LET lines == boq[1].accessory_boq
     IN /\ \A i \in 1..Len(lines) :
              /\ lines[i].part_number \in AccessoryPartNumbers
              /\ lines[i].quantity = AccessoryUnits(1, lines[i].part_number)
              /\ \A j \in 1..Len(lines) : lines[j].part_number = lines[i].part_number => j = i
        /\ \A pn \in AccessoryPartNumbers :
              (\E i \in 1..Len(lines) : lines[i].part_number = pn)
                <=> \E r \in 1..Len(accessories) :
                       /\ accessories[r].part_number = pn
                       /\ IsSelected(accessories[r].parent_part_number)

\* Accessory A1 is owed for a controller selected at two units and for a
\* module selected in a server solution; A3, whose parent M2 is in no
\* selection, has no line
C12_Witness ==
  /\ Ran("generate_controller_boq")
  /\ Len(controller_selections) = 2
  /\ controller_selections[1].quantity = 2 /\ ~controller_selections[1].is_server_selection
  /\ controller_selections[2].is_server_selection
  /\ IsSelected("M1") /\ ~IsSelected("M2")
  /\ \E r \in 1..Len(accessories) : accessories[r].parent_part_number = "M1"
  /\ \E i \in 1..Len(boq[1].accessory_boq) :
        /\ boq[1].accessory_boq[i].part_number = "A1"
        /\ boq[1].accessory_boq[i].quantity >= 3
  /\ \A i \in 1..Len(boq[1].accessory_boq) : boq[1].accessory_boq[i].part_number # "A3"

====
